---- MODULE Spec2Model ----
(***************************************************************************)
(* Evaluation harness of the RAG chatbot: the JSON evaluation logger       *)
(* (src/evaluator/logging.py), the judge invoker                           *)
(* (src/evaluator/evaluation_model.py), the LLM-judged metric functions    *)
(* (src/evaluator/retrieval_eval.py, src/evaluator/faithfulness_eval.py)   *)
(* and the batch drivers (src/test_*.py); the ingestion pipeline: the wiki  *)
(* scrapers (src/scraperv2, src/scraper) and the vector store              *)
(* (src/embedderv2/vector_store.py).                                       *)
(***************************************************************************)
EXTENDS Integers, Sequences, FiniteSets, TLC

\* ------------------------------------------------------------------------
\* Bounds
\* ------------------------------------------------------------------------
NQ == 2
NV == 2
MaxCalls == 3
MaxStrLen == 3
MaxLogged == 2
MaxChunks == 2

Queries == 1..NQ
Values == 1..NV

\* ------------------------------------------------------------------------
\* State
\* ------------------------------------------------------------------------
VARIABLES
    file,       \* the JSON log file at EvaluationLogger.json_path
    trace,      \* the records passed to EvaluationLogger.log so far, in call order
    parse,      \* one call of _parse_llm_score: its argument and its outcome
    judge,      \* one call of evaluate(prompt): loop counter, delay, calls made, result
    endpoint,   \* what the judge endpoint does on its 1st, 2nd, ... call
    caller,     \* the metric function (and its driver) that called evaluate
    drv,        \* a sequential driver: its loop position and the entry under evaluation
    pool,       \* a parallel driver: the pool's task counter, workers and task results
    export,     \* the CSV file at EvaluationLogger.csv_path and the last reader call's result
    metric,     \* one call of an embedding/BM25 metric function: its inputs and its result
    sim,        \* one call of a text-similarity score: its texts and its result
    store,      \* VectorStore: the collection and the add_to_vector_db call under way
    scraper,    \* MinecraftWikiScraper.run: data/raw, the browser, the topic loop
    page,       \* parse_sections: the elements still to read, the sections built so far
    collector   \* CategoryPageCollector: pages.json, pages_collected, the pagination loop

\* The evaluation harness and the ingestion pipeline.
harness == <<file, trace, parse, judge, endpoint, caller, drv, pool, export, metric, sim>>
ingestion == <<store, scraper, page, collector>>

vars == <<harness, ingestion>>

\* ------------------------------------------------------------------------
\* EvaluationLogger (src/evaluator/logging.py)
\* ------------------------------------------------------------------------
\* A record is a dict: a function from its keys to values.  Every record the
\* drivers build has the key "query".
MetricKeys == {"context_recall", "context_precision_llm"}

RecordsOver(S) ==
    { [k \in {"query"} \cup S |-> IF k = "query" THEN q ELSE f[k]] :
        q \in Queries, f \in [S -> Values] }

LogRecords == UNION { RecordsOver(S) : S \in SUBSET MetricKeys }

\* The file: absent, present with a JSON list, or present but not parseable.
AbsentFile == [exists |-> FALSE, ok |-> FALSE, data |-> <<>>]
CorruptFile == [exists |-> TRUE, ok |-> FALSE, data |-> <<>>]

\* json.dump(existing_data, f): the file holds the list.
JsonDump(data) == [exists |-> TRUE, ok |-> TRUE, data |-> data]

\* dict.get("query")
GetQuery(r) == IF "query" \in DOMAIN r THEN r["query"] ELSE 0

\* A merge that keeps the stored value of a key both records have.
DictUpdate_KeepOld(old, new) ==
    [k \in (DOMAIN old) \cup (DOMAIN new) |->
        IF k \in DOMAIN old THEN old[k] ELSE new[k]]

\* existing_data[-1].update(data): keys of both, data's value where it has one.
DictUpdate(old, new) ==
    [k \in (DOMAIN old) \cup (DOMAIN new) |->
        IF k \in DOMAIN new THEN new[k] ELSE old[k]]

\* lines 17-24: [] unless the file exists and parses.
LoadExisting(f) == IF f.exists /\ f.ok THEN f.data ELSE <<>>

\* A logger that puts a new record at the head of the list.
MergeOrAppend_Prepend(existing, data) ==
    IF existing # <<>> /\ GetQuery(existing[Len(existing)]) = GetQuery(data)
    THEN [existing EXCEPT ![Len(existing)] = DictUpdate(@, data)]
    ELSE <<data>> \o existing

\* A write that forgets the existing entries when the query is new.
MergeOrAppend_Overwrite(existing, data) ==
    IF existing # <<>> /\ GetQuery(existing[Len(existing)]) = GetQuery(data)
    THEN [existing EXCEPT ![Len(existing)] = DictUpdate(existing[Len(existing)], data)]
    ELSE <<data>>

\* lines 26-30: update the LAST entry if its query matches, else append.
MergeOrAppend(existing, data) ==
    IF existing # <<>> /\ GetQuery(existing[Len(existing)]) = GetQuery(data)
    THEN [existing EXCEPT ![Len(existing)] = DictUpdate(existing[Len(existing)], data)]
    ELSE Append(existing, data)

\* A log_to_json whose JSONDecodeError ends the call: nothing is written.
LogToJson_KeepCorrupt(f, data) ==
    IF f.exists /\ ~f.ok THEN f ELSE JsonDump(MergeOrAppend(LoadExisting(f), data))

\* log_to_json as one uninterrupted call.
LogToJson(f, data) == JsonDump(MergeOrAppend(LoadExisting(f), data))

\* ------------------------------------------------------------------------
\* Readers of the log: read_last_entry and generate_csv (logging.py:37-125)
\* ------------------------------------------------------------------------
\* A field's value: a scalar, or a dict of sub-scores.
Scalar(n) == [isdict |-> FALSE, n |-> n, sub |-> [k \in {} |-> 0]]
Dict(f) == [isdict |-> TRUE, n |-> 0, sub |-> f]

\* Python dicts iterate in insertion order; the records of the model carry no
\* order, so keys and subkeys are visited in the order of the drivers' dict
\* literals.
KeyOrder == <<"query", "context_precision">>
SubKeyOrder == <<"cosine_score", "bm25_score">>

\* compute_context_precision hands back a float or a dict of sub-scores, and
\* the parallel retrieval driver stores it whole; a record may also lack the
\* field.
PrecisionShapes == {{"cosine_score"}, {"cosine_score", "bm25_score"}}

\* The queries and scores of the records tried against the readers.
ExportQueries == {1, 2}
ExportValues == {1, 2}

PrecisionValues ==
    { Scalar(v) : v \in ExportValues } \cup
    { Dict([k \in S |-> v]) : S \in PrecisionShapes, v \in ExportValues }

ExportRecords ==
    { [k \in {"query"} |-> Scalar(q)] : q \in ExportQueries } \cup
    { [k \in {"query", "context_precision"} |->
          IF k = "query" THEN Scalar(q) ELSE p] :
        q \in ExportQueries, p \in PrecisionValues }

EvalTypes == {"retrieval", "faithfulness"}

\* read_last_entry: the last entry, or None.
NoEntry == [none |-> TRUE, entry |-> [k \in {"query"} |-> Scalar(0)]]
SomeEntry(r) == [none |-> FALSE, entry |-> r]

ReadLastEntry(f) ==
    IF f.exists /\ f.ok /\ f.data # <<>> THEN SomeEntry(f.data[Len(f.data)]) ELSE NoEntry

\* A column is a (key, subkey) pair, subkey None for a scalar field.
NoSubkey == "None"
Column(key, subkey) == [key |-> key, subkey |-> subkey]

\* A cell holds a value or the empty string.
Cell(v) == [empty |-> FALSE, v |-> v]
EmptyCell == [empty |-> TRUE, v |-> Scalar(0)]

SubKeysOf(value) == SelectSeq(SubKeyOrder, LAMBDA sk : sk \in DOMAIN value.sub)

\* lines 70-75, 79-86: the columns one entry's items give, from key i on.
RECURSIVE EntryColumns(_, _)
EntryColumns(entry, i) ==
    IF i > Len(KeyOrder) THEN <<>>
    ELSE LET key == KeyOrder[i]
             cols == IF key \notin DOMAIN entry THEN <<>>
                     ELSE IF entry[key].isdict
                          THEN [j \in 1..Len(SubKeysOf(entry[key])) |->
                                   Column(key, SubKeysOf(entry[key])[j])]
                          ELSE <<Column(key, NoSubkey)>>
         IN  cols \o EntryColumns(entry, i + 1)

InSeq(x, seq) == \E i \in 1..Len(seq) : seq[i] = x

\* `if (key, subkey) not in column_headers: column_headers.append(...)`
RECURSIVE AppendNew(_, _)
AppendNew(headers, cols) ==
    IF cols = <<>> THEN headers
    ELSE AppendNew(IF InSeq(Head(cols), headers) THEN headers
                   ELSE Append(headers, Head(cols)),
                   Tail(cols))

\* lines 68-86: the first entry's columns, then those of data[1:] not yet there.
RECURSIVE RetrievalColumns(_, _)
RetrievalColumns(data, n) ==
    IF n = 0 THEN <<>>
    ELSE AppendNew(RetrievalColumns(data, n - 1), EntryColumns(data[n], 1))

\* lines 94-103: one data row.
RetrievalRow(entry, headers) ==
    [i \in 1..Len(headers) |->
        LET key == headers[i].key
            subkey == headers[i].subkey
        IN  IF subkey = NoSubkey
            THEN IF key \in DOMAIN entry THEN Cell(entry[key]) ELSE EmptyCell
            ELSE IF key \in DOMAIN entry /\ entry[key].isdict
                    /\ subkey \in DOMAIN entry[key].sub
                 THEN Cell(Scalar(entry[key].sub[subkey]))
                 ELSE EmptyCell]

\* The CSV file: its header (the two header rows of the retrieval export are
\* the columns' keys and subkeys) and its data rows.
NoCsv == [exists |-> FALSE, header |-> <<>>, rows |-> <<>>]
CsvFile(header, rows) == [exists |-> TRUE, header |-> header, rows |-> rows]

\* _generate_retrieval_csv
RetrievalCsv(data) ==
    LET headers == RetrievalColumns(data, Len(data))
    IN  CsvFile(headers, [i \in 1..Len(data) |-> RetrievalRow(data[i], headers)])

\* _generate_faithfulness_csv: headers = list(data[0].keys()).
FaithfulnessCsv(data) ==
    LET keys == SelectSeq(KeyOrder, LAMBDA k : k \in DOMAIN data[1])
        headers == [i \in 1..Len(keys) |-> Column(keys[i], NoSubkey)]
    IN  CsvFile(headers,
                [i \in 1..Len(data) |->
                    [j \in 1..Len(headers) |->
                        IF keys[j] \in DOMAIN data[i] THEN Cell(data[i][keys[j]])
                        ELSE EmptyCell]])

\* A generate_csv that opens the CSV file for writing before it looks at the
\* log.
GenerateCsv_OpenFirst(eval_type, f, old) ==
    IF ~f.exists \/ ~f.ok \/ f.data = <<>> THEN CsvFile(<<>>, <<>>)
    ELSE IF eval_type = "retrieval" THEN RetrievalCsv(f.data)
    ELSE FaithfulnessCsv(f.data)

\* generate_csv: the CSV file after the call, `old` being the file before.
GenerateCsv(eval_type, f, old) ==
    IF ~f.exists THEN old
    ELSE IF ~f.ok THEN old
    ELSE IF f.data = <<>> THEN old
    ELSE IF eval_type = "retrieval" THEN RetrievalCsv(f.data)
    ELSE FaithfulnessCsv(f.data)

\* ------------------------------------------------------------------------
\* Strings and _parse_llm_score (retrieval_eval.py:459, faithfulness_eval.py:209)
\* ------------------------------------------------------------------------
\* A string is a sequence of atoms: a digit, ".", a sign, a blank, or a word
\* (any run of other characters, kept whole).
Digits == {"0", "1", "2", "3", "4", "5", "6", "7", "8", "9"}
Signs == {"-", "+"}
Blank == " "

IsDigit(c) == c \in Digits

DigitVal(c) ==
    CASE c = "0" -> 0 [] c = "1" -> 1 [] c = "2" -> 2 [] c = "3" -> 3
      [] c = "4" -> 4 [] c = "5" -> 5 [] c = "6" -> 6 [] c = "7" -> 7
      [] c = "8" -> 8 [] c = "9" -> 9

AllDigits(s) == \A i \in 1..Len(s) : IsDigit(s[i])

SetMin(S) == CHOOSE x \in S : \A y \in S : x <= y
SetMax(S) == CHOOSE x \in S : \A y \in S : x >= y

\* str.strip(): drop leading and trailing whitespace.
Strip(s) ==
    LET nb == { i \in 1..Len(s) : s[i] # Blank }
    IN  IF nb = {} THEN <<>> ELSE SubSeq(s, SetMin(nb), SetMax(nb))

\* Numbers are fixed-point: value * Scale, Scale = 10^FracDigits.
FracDigits == MaxStrLen

RECURSIVE Pow10(_)
Pow10(n) == IF n = 0 THEN 1 ELSE 10 * Pow10(n - 1)

Scale == Pow10(FracDigits)

RECURSIVE DigitsValue(_)
DigitsValue(ds) ==
    IF ds = <<>> THEN 0
    ELSE 10 * DigitsValue(SubSeq(ds, 1, Len(ds) - 1)) + DigitVal(ds[Len(ds)])

DotPositions(u) == { i \in 1..Len(u) : u[i] = "." }

\* digits, digits "." digits?, or "." digits
IsUnsignedFloat(u) ==
    /\ Len(u) > 0
    /\ \/ AllDigits(u)
       \/ \E p \in DotPositions(u) :
            /\ AllDigits(SubSeq(u, 1, p - 1))
            /\ AllDigits(SubSeq(u, p + 1, Len(u)))
            /\ Len(u) > 1

UnsignedValue(u) ==
    IF DotPositions(u) = {} THEN DigitsValue(u) * Scale
    ELSE LET p  == SetMin(DotPositions(u))
             ip == SubSeq(u, 1, p - 1)
             fp == SubSeq(u, p + 1, Len(u))
         IN  DigitsValue(ip) * Scale + DigitsValue(fp) * Pow10(FracDigits - Len(fp))

\* float(text) accepts an optionally signed decimal literal.
IsFloatLiteral(t) ==
    /\ Len(t) > 0
    /\ IsUnsignedFloat(IF t[1] \in Signs THEN Tail(t) ELSE t)

FloatValue(t) ==
    IF t[1] = "-" THEN 0 - UnsignedValue(Tail(t))
    ELSE IF t[1] = "+" THEN UnsignedValue(Tail(t))
    ELSE UnsignedValue(t)

\* re.search(r"(\d+(\.\d+)?)", text): the leftmost, greedy match.
HasNumber(s) == \E i \in 1..Len(s) : IsDigit(s[i])

RegexFirstNumber(s) ==
    LET start  == SetMin({ i \in 1..Len(s) : IsDigit(s[i]) })
        intEnd == SetMax({ j \in start..Len(s) : AllDigits(SubSeq(s, start, j)) })
        hasFrac == /\ intEnd + 2 <= Len(s)
                   /\ s[intEnd + 1] = "."
                   /\ IsDigit(s[intEnd + 2])
        fracEnd == SetMax({ j \in (intEnd + 2)..Len(s) : AllDigits(SubSeq(s, intEnd + 2, j)) })
    IN  SubSeq(s, start, IF hasFrac THEN fracEnd ELSE intEnd)

\* The message of the AttributeError raised by `response.text` on a str.
AttrErrMsg == <<"'str' object has no attribute 'text'">>

Returned(v) == [raised |-> FALSE, value |-> v, exc |-> <<>>]
Raised(msg) == [raised |-> TRUE, value |-> 0, exc |-> msg]

\* The judge's response is a str (evaluate returns str): it has no attribute
\* `text`.
HasTextAttr(response) == FALSE

\* _parse_llm_score: float(response.strip()); on ValueError the handler
\* evaluates response.text before the regex search.
ParseLLMScore(response) ==
    IF IsFloatLiteral(Strip(response))
    THEN Returned(FloatValue(Strip(response)))
    ELSE IF ~HasTextAttr(response)
         THEN Raised(AttrErrMsg)
         ELSE IF HasNumber(response)
              THEN Returned(UnsignedValue(RegexFirstNumber(response)))
              ELSE Returned(0 - Scale)

\* The response strings tried against the parser.
ParseAtoms == {"7", "1", ".", " ", "-", "x"}
ParseInputs == UNION { [1..n -> ParseAtoms] : n \in 0..MaxStrLen }

\* ------------------------------------------------------------------------
\* Judge invoker (src/evaluator/evaluation_model.py, src/evaluator/ragas_eval.py)
\* ------------------------------------------------------------------------
Retries == 3
MaxScript == 4

JudgeKinds == {"ChatGPT", "LMStudio", "LMStudioLLM"}

\* delay = 2 (ChatGPT, LMStudio), delay = 1 (LMStudioLLM._call)
InitialDelay(kind) == IF kind = "LMStudioLLM" THEN 1 ELSE 2

\* What one call of the endpoint can do: answer (status 200 and a well-formed
\* body), raise, or answer with another status.  ChatGPT's client raises on
\* every failure.
OkBodies == {<<" ", "7">>, <<"1", "1">>, <<"x">>}
ErrTexts == {<<"timeout">>, <<"Resource has been exhausted">>}
StatusCodes == {<<"4", "2", "9">>}

OkOutcomes == { [t |-> "ok", status |-> <<"2", "0", "0">>, body |-> b] : b \in OkBodies }
ExcOutcomes == { [t |-> "exc", status |-> <<>>, body |-> m] : m \in ErrTexts }
StatusOutcomes == { [t |-> "non200", status |-> c, body |-> m] : c \in StatusCodes, m \in ErrTexts }

Outcomes(kind) ==
    OkOutcomes \cup ExcOutcomes \cup (IF kind = "ChatGPT" THEN {} ELSE StatusOutcomes)

Scripts(kind) == [1..MaxScript -> Outcomes(kind)]

\* What evaluate hands back: a str, or (never, in this code) None / an exception.
Pending == [k |-> "pending", s |-> <<>>]
RetStr(s) == [k |-> "str", s |-> s]
RetNone == [k |-> "none", s |-> <<>>]
RetRaise(msg) == [k |-> "raise", s |-> msg]

\* f"Error: {str(e)}"
ErrorFromException(msg) == <<"Error:", " ">> \o msg

\* f"Error {response.status_code}: {response.text}"
ErrorFromStatus(code, text) == <<"Error", " ">> \o code \o <<":", " ">> \o text

\* State of one evaluate call at the head of its for loop.
JudgeStart(kind) ==
    [kind |-> kind, pc |-> "loop", attempt |-> 0, delay |-> InitialDelay(kind),
     ncalls |-> 0, sleeps |-> <<>>, ret |-> Pending]

\* A retry loop that gives up one attempt early.
AttemptStep_GiveUpEarly(j, o) ==
    LET called == [j EXCEPT !.ncalls = @ + 1]
    IN  IF o.t = "ok"
        THEN [called EXCEPT !.pc = "returned", !.ret = RetStr(Strip(o.body))]
        ELSE IF j.attempt < Retries - 2
             THEN [called EXCEPT !.sleeps = Append(@, j.delay),
                                 !.delay = 2 * @,
                                 !.attempt = @ + 1]
             ELSE [called EXCEPT !.pc = "returned",
                                 !.ret = RetStr(IF o.t = "non200"
                                                THEN ErrorFromStatus(o.status, o.body)
                                                ELSE ErrorFromException(o.body))]

\* A retry loop that re-raises the last attempt's exception.
AttemptStep_RaiseOnLast(j, o) ==
    LET called == [j EXCEPT !.ncalls = @ + 1]
    IN  IF o.t = "ok"
        THEN [called EXCEPT !.pc = "returned", !.ret = RetStr(Strip(o.body))]
        ELSE IF j.attempt < Retries - 1
             THEN [called EXCEPT !.sleeps = Append(@, j.delay),
                                 !.delay = 2 * @,
                                 !.attempt = @ + 1]
             ELSE [called EXCEPT !.pc = "returned",
                                 !.ret = IF o.t = "non200"
                                         THEN RetStr(ErrorFromStatus(o.status, o.body))
                                         ELSE RetRaise(o.body)]

\* A retry loop that sleeps the same delay before every retry.
AttemptStep_ConstantDelay(j, o) ==
    LET called == [j EXCEPT !.ncalls = @ + 1]
    IN  IF o.t = "ok"
        THEN [called EXCEPT !.pc = "returned", !.ret = RetStr(Strip(o.body))]
        ELSE IF j.attempt < Retries - 1
             THEN [called EXCEPT !.sleeps = Append(@, j.delay),
                                 !.attempt = @ + 1]
             ELSE [called EXCEPT !.pc = "returned",
                                 !.ret = RetStr(IF o.t = "non200"
                                                THEN ErrorFromStatus(o.status, o.body)
                                                ELSE ErrorFromException(o.body))]

\* One iteration of `for attempt in range(retries)`: call the endpoint, then
\* return the content, or sleep and double the delay, or return the error
\* string on the last attempt.
AttemptStep(j, o) ==
    LET called == [j EXCEPT !.ncalls = @ + 1]
    IN  IF o.t = "ok"
        THEN [called EXCEPT !.pc = "returned", !.ret = RetStr(Strip(o.body))]
        ELSE IF j.attempt < Retries - 1
             THEN [called EXCEPT !.sleeps = Append(@, j.delay),
                                 !.delay = 2 * @,
                                 !.attempt = @ + 1]
             ELSE [called EXCEPT !.pc = "returned",
                                 !.ret = RetStr(IF o.t = "non200"
                                                THEN ErrorFromStatus(o.status, o.body)
                                                ELSE ErrorFromException(o.body))]

\* evaluate(prompt) run to its return against a scripted endpoint.
RECURSIVE RunJudge(_, _)
RunJudge(j, script) ==
    IF j.pc = "returned" THEN j
    ELSE RunJudge(AttemptStep(j, script[j.ncalls + 1]), script)

EvaluateRun(kind, script) == RunJudge(JudgeStart(kind), script)

\* ------------------------------------------------------------------------
\* LLM-judged metric functions
\* ------------------------------------------------------------------------
RetrievalLLMFns ==
    {"compute_context_precision_with_llm", "compute_context_recall_with_llm",
     "compute_retrieval_precision_with_llm", "compute_negative_retrieval_with_llm"}

FaithLLMFns == {"llm_as_judge", "llm_faithful_coverage"}

LLMFns == RetrievalLLMFns \cup FaithLLMFns

\* A metric result: a number, a sentinel string, or an exception leaving the
\* function.
MNum(n) == [k |-> "num", n |-> n, s |-> "", e |-> <<>>]
MStr(s) == [k |-> "str", n |-> 0, s |-> s, e |-> <<>>]
MRaise(msg) == [k |-> "raise", n |-> 0, s |-> "", e |-> msg]

\* str.lower()
LowerAtom(a) ==
    CASE a = "Resource has been exhausted" -> "resource has been exhausted"
      [] a = "Error:" -> "error:"
      [] a = "Error" -> "error"
      [] OTHER -> a

Lower(s) == [i \in 1..Len(s) |-> LowerAtom(s[i])]

\* _handle_llm_exception (retrieval_eval.py:481)
HandleLLMException(msg) ==
    IF \E i \in 1..Len(msg) : Lower(msg)[i] = "resource has been exhausted"
    THEN "FDTKE"
    ELSE "Error"

\* The exception, if any, met by `response = evaluate(prompt); score =
\* _parse_llm_score(response)`; None.strip() raises as well.
NoneErrMsg == <<"'NoneType' object has no attribute 'strip'">>

ScoreOf(ret) ==
    CASE ret.k = "str" -> ParseLLMScore(ret.s)
      [] ret.k = "none" -> Raised(NoneErrMsg)
      [] OTHER -> Raised(ret.s)

\* The part of a metric function after its evaluate call.  The four
\* compute_*_with_llm wrap it in try/except Exception; llm_as_judge and
\* llm_faithful_coverage do not.
MetricAfterEvaluate(fn, ret) ==
    LET p == ScoreOf(ret)
    IN  IF ~p.raised THEN MNum(p.value)
        ELSE IF fn \in RetrievalLLMFns THEN MStr(HandleLLMException(p.exc))
        ELSE MRaise(p.exc)

\* The drivers (and evaluate_faithfulness) that call each metric function.
DriversOf(fn) ==
    IF fn \in RetrievalLLMFns
    THEN {"test_retrieval", "test_retrieval_parallel"}
    ELSE {"test_faithfulness", "test_faithfulness_parallel", "evaluate_faithfulness"}

\* What the caller stores for the metric: test_retrieval.py has no handler
\* around the call; the others replace an exception by "FDTKE".
RecordedValue(driver, result) ==
    IF result.k = "raise" /\ driver # "test_retrieval" THEN MStr("FDTKE") ELSE result

\* ------------------------------------------------------------------------
\* Embedding- and BM25-based metric functions (src/evaluator/retrieval_eval.py)
\* ------------------------------------------------------------------------
\* Python floats are modelled as exact rationals n/d in lowest terms, d > 0.
RECURSIVE GCD(_, _)
GCD(a, b) == IF b = 0 THEN a ELSE GCD(b, a % b)

Abs(x) == IF x < 0 THEN 0 - x ELSE x

Rat(n, d) ==
    LET g == GCD(Abs(n), d)
    IN  [n |-> n \div g, d |-> d \div g]

RatAdd(a, b) == Rat(a.n * b.d + b.n * a.d, a.d * b.d)
RatDivInt(a, k) == Rat(a.n, a.d * k)
RatMulInt(a, k) == Rat(a.n * k, a.d)
RatLeq(a, b) == a.n * b.d <= b.n * a.d

RECURSIVE RatSum(_)
RatSum(seq) == IF seq = <<>> THEN Rat(0, 1) ELSE RatAdd(Head(seq), RatSum(Tail(seq)))

\* round(x, 2), in hundredths: to nearest, a tie to the even hundredth.
Round2(a) ==
    LET num == a.n * 100
        q == num \div a.d
        r == num - q * a.d
    IN  IF 2 * r < a.d THEN q
        ELSE IF 2 * r > a.d THEN q + 1
        ELSE IF q % 2 = 0 THEN q ELSE q + 1

\* The encoder and BM25Okapi are external: a cosine similarity is a number of
\* ten-thousandths in [-1, 1], a raw BM25 score a number of hundredths.
CosDen == 10000

BlobCosines == {0 - 5000, 3026, 10000}
ChunkCosines == {1999, 2000, 2999, 3000}
BM25Scores == {0 - 5, 0, 5, 10, 20}

\* A retrieved chunk, seen through the two scorers: its cosine similarity to
\* the query and its raw BM25 score for the query.
ScoredChunks == [cos : ChunkCosines, bm25 : BM25Scores]
ScoredChunkLists == UNION { [1..n -> ScoredChunks] : n \in 0..MaxChunks }

RawScores(chunks) == [i \in 1..Len(chunks) |-> chunks[i].bm25]

SeqMin(seq) == SetMin({ seq[i] : i \in 1..Len(seq) })
SeqMax(seq) == SetMax({ seq[i] : i \in 1..Len(seq) })

\* A normalization that gives 0 to a set of identical scores.
NormalizeBM25_ZeroWhenEqual(scores) ==
    LET min_score == SeqMin(scores)
        max_score == SeqMax(scores)
    IN  IF max_score = min_score
        THEN [i \in 1..Len(scores) |-> Rat(0, 1)]
        ELSE [i \in 1..Len(scores) |->
                 Rat(10 * (scores[i] - min_score), max_score - min_score)]

\* lines 59-68: min-max normalization of the BM25 scores to 0..10.
NormalizeBM25(scores) ==
    LET min_score == SeqMin(scores)
        max_score == SeqMax(scores)
    IN  IF max_score = min_score
        THEN [i \in 1..Len(scores) |-> Rat(10, 1)]
        ELSE [i \in 1..Len(scores) |->
                 Rat(10 * (scores[i] - min_score), max_score - min_score)]

\* What a metric function returns: a float, or a dict of rounded sub-scores
\* (hundredths).  `normalized`, `relevant_cosine`, `relevant_bm25` and
\* `flagged` are the function's locals at its return.
NoSubScores == [k \in {} |-> 0]

FloatResult(x) ==
    [isdict |-> FALSE, value |-> x, sub |-> NoSubScores, normalized |-> <<>>,
     relevant_cosine |-> {}, relevant_bm25 |-> {}, flagged |-> {}]

DictResult(sub) ==
    [isdict |-> TRUE, value |-> Rat(0, 1), sub |-> sub, normalized |-> <<>>,
     relevant_cosine |-> {}, relevant_bm25 |-> {}, flagged |-> {}]

\* A combined score averaged from the rounded sub-scores.
ComputeContextPrecision_RoundFirst(blobcos, chunks) ==
    IF chunks = <<>> THEN FloatResult(Rat(0, 1))
    ELSE LET cosine_score == Rat(blobcos * 10, CosDen)
             normalized_scores == NormalizeBM25(RawScores(chunks))
             bm25_avg_score == RatDivInt(RatSum(normalized_scores), Len(normalized_scores))
             precision_score ==
                 RatDivInt(Rat(Round2(cosine_score) + Round2(bm25_avg_score), 100), 2)
         IN  [DictResult([k \in {"cosine_score", "bm25_score", "combined_precision_score"} |->
                             CASE k = "cosine_score" -> Round2(cosine_score)
                               [] k = "bm25_score" -> Round2(bm25_avg_score)
                               [] k = "combined_precision_score" -> Round2(precision_score)])
                 EXCEPT !.normalized = normalized_scores]

\* compute_context_precision(query, retrieved_chunks), blobcos being the
\* cosine similarity of the query and the joined chunks.
ComputeContextPrecision(blobcos, chunks) ==
    IF chunks = <<>> THEN FloatResult(Rat(0, 1))
    ELSE LET cosine_score == Rat(blobcos * 10, CosDen)
             normalized_scores == NormalizeBM25(RawScores(chunks))
             bm25_avg_score == RatDivInt(RatSum(normalized_scores), Len(normalized_scores))
             precision_score == RatDivInt(RatAdd(cosine_score, bm25_avg_score), 2)
         IN  [DictResult([k \in {"cosine_score", "bm25_score", "combined_precision_score"} |->
                             CASE k = "cosine_score" -> Round2(cosine_score)
                               [] k = "bm25_score" -> Round2(bm25_avg_score)
                               [] k = "combined_precision_score" -> Round2(precision_score)])
                 EXCEPT !.normalized = normalized_scores]

\* threshold=0.3 (line 110), in ten-thousandths.
ChunkwiseThreshold == 3000

\* A chunkwise precision without the case of a zero maximum.
ComputeContextPrecisionChunkwise_NoZeroCase(chunks) ==
    IF chunks = <<>>
    THEN DictResult([k \in {"chunkwise_cosine_precision", "chunkwise_bm25_precision",
                            "combined_precision"} |-> 0])
    ELSE LET n == Len(chunks)
             relevant_cosine == { i \in 1..n : chunks[i].cos >= ChunkwiseThreshold }
             cosine_precision_fraction == Rat(Cardinality(relevant_cosine), n)
             bm25_scores == RawScores(chunks)
             max_bm25 == SeqMax(bm25_scores)
             relevant_bm25 == { i \in 1..n : 2 * bm25_scores[i] >= max_bm25 }
             bm25_precision_fraction == Rat(Cardinality(relevant_bm25), n)
             combined_precision_fraction ==
                 RatDivInt(RatAdd(cosine_precision_fraction, bm25_precision_fraction), 2)
         IN  [DictResult([k \in {"chunkwise_cosine_precision", "chunkwise_bm25_precision",
                                 "combined_precision_score"} |->
                             CASE k = "chunkwise_cosine_precision" ->
                                      Round2(RatMulInt(cosine_precision_fraction, 10))
                               [] k = "chunkwise_bm25_precision" ->
                                      Round2(RatMulInt(bm25_precision_fraction, 10))
                               [] k = "combined_precision_score" ->
                                      Round2(RatMulInt(combined_precision_fraction, 10))])
                 EXCEPT !.relevant_cosine = relevant_cosine,
                        !.relevant_bm25 = relevant_bm25]

\* compute_context_precision_chunkwise(query, retrieved_chunks)
ComputeContextPrecisionChunkwise(chunks) ==
    IF chunks = <<>>
    THEN DictResult([k \in {"chunkwise_cosine_precision", "chunkwise_bm25_precision",
                            "combined_precision"} |-> 0])
    ELSE LET n == Len(chunks)
             relevant_cosine == { i \in 1..n : chunks[i].cos >= ChunkwiseThreshold }
             cosine_precision_fraction == Rat(Cardinality(relevant_cosine), n)
             bm25_scores == RawScores(chunks)
             max_bm25 == SeqMax(bm25_scores)
             relevant_bm25 ==
                 IF max_bm25 = 0 THEN {}
                 ELSE { i \in 1..n : 2 * bm25_scores[i] >= max_bm25 }
             bm25_precision_fraction == Rat(Cardinality(relevant_bm25), n)
             combined_precision_fraction ==
                 RatDivInt(RatAdd(cosine_precision_fraction, bm25_precision_fraction), 2)
         IN  [DictResult([k \in {"chunkwise_cosine_precision", "chunkwise_bm25_precision",
                                 "combined_precision_score"} |->
                             CASE k = "chunkwise_cosine_precision" ->
                                      Round2(RatMulInt(cosine_precision_fraction, 10))
                               [] k = "chunkwise_bm25_precision" ->
                                      Round2(RatMulInt(bm25_precision_fraction, 10))
                               [] k = "combined_precision_score" ->
                                      Round2(RatMulInt(combined_precision_fraction, 10))])
                 EXCEPT !.relevant_cosine = relevant_cosine,
                        !.relevant_bm25 = relevant_bm25]

\* threshold=0.2 and bm25_threshold=0.1 (line 354), in ten-thousandths and
\* hundredths.
NegativeThreshold == 2000
NegativeBM25Threshold == 10

\* A check that flags a chunk failing either test.
IsIrrelevant_Either(chunk) ==
    chunk.cos < NegativeThreshold \/ chunk.bm25 < NegativeBM25Threshold

\* line 373: cosine_sim < threshold and bm25_score < bm25_threshold
IsIrrelevant(chunk) ==
    chunk.cos < NegativeThreshold /\ chunk.bm25 < NegativeBM25Threshold

\* compute_negative_retrieval(query, retrieved_chunks), as it stands commented
\* out at lines 354-378.
ComputeNegativeRetrieval(chunks) ==
    IF chunks = <<>> THEN FloatResult(Rat(10, 1))
    ELSE LET flagged == { i \in 1..Len(chunks) : IsIrrelevant(chunks[i]) }
         IN  [FloatResult(RatMulInt(Rat(Cardinality(flagged), Len(chunks)), 10))
                 EXCEPT !.flagged = flagged]

MetricFns ==
    {"compute_context_precision", "compute_context_precision_chunkwise",
     "compute_negative_retrieval"}

\* ------------------------------------------------------------------------
\* Batch drivers (src/test_faithfulness.py, src/test_retrieval.py and the
\* evaluate_entry of their _parallel variants)
\* ------------------------------------------------------------------------
NA == 2

SequentialScripts == {"test_faithfulness", "test_retrieval"}
ParallelScripts == {"test_faithfulness_parallel", "test_retrieval_parallel"}
FaithScripts == {"test_faithfulness", "test_faithfulness_parallel"}

\* ground_truth_qna.json: the questions, each with its ground-truth answer.
Dataset == [i \in 1..NQ |-> [question |-> i, answer |-> i]]

\* The external collaborators.  retriever.query returns a chunk list (maybe
\* empty) or raises; `answer, _ = generator.generate_response(...)` yields an
\* answer or raises.  The generator is an LLM: two calls may differ.
ChunkLists == {<<>>, <<1>>, <<1, 2>>}
Answers == 1..NA

RetrieverOutcomes ==
    { [t |-> "ok", chunks |-> c] : c \in ChunkLists } \cup { [t |-> "exc", chunks |-> <<>>] }

GeneratorOutcomes ==
    { [t |-> "ok", answer |-> a] : a \in Answers } \cup { [t |-> "exc", answer |-> 0] }

NoOutcome == [t |-> "none", answer |-> 0]

\* The strings evaluate can return to a metric function (LMStudio is the
\* evaluation model the drivers construct).
JudgeReturns == { EvaluateRun("LMStudio", s).ret : s \in Scripts("LMStudio") }

\* The embedding-based scores: the encoder is external, the score is some
\* fixed function of the texts it is given, on the 0..10 scale.
EmbedScore(chunks, text) == ((3 * Len(chunks) + text) % 11) * Scale

\* compute_context_precision: the float 0.0 for no chunks, else a dict.
ContextPrecision(query, chunks) ==
    IF chunks = <<>>
    THEN [isdict |-> FALSE, combined |-> 0]
    ELSE [isdict |-> TRUE, combined |-> EmbedScore(chunks, query)]

\* The LLM-judged metrics each driver calls, in call order.
LLMOrder(script) ==
    IF script \in FaithScripts
    THEN <<"llm_as_judge", "llm_faithful_coverage">>
    ELSE <<"compute_context_precision_with_llm", "compute_context_recall_with_llm",
           "compute_retrieval_precision_with_llm", "compute_negative_retrieval_with_llm">>

\* The compute_*_with_llm return "Error" for an empty chunk list before any
\* judge call; llm_as_judge and llm_faithful_coverage always call the judge.
CallsJudge(fn, chunks) == fn \in FaithLLMFns \/ chunks # <<>>

LLMMetric(fn, chunks, ret) ==
    IF CallsJudge(fn, chunks) THEN MetricAfterEvaluate(fn, ret) ELSE MStr("Error")

\* test_retrieval.py calls the LLM metrics outside any try block.
HasLLMTry(script) == script # "test_retrieval"

\* The evaluation of one dataset entry, at its first statement.
EvalStart(script, i) ==
    [script |-> script, query |-> Dataset[i].question, truth |-> Dataset[i].answer,
     pc |-> "retrieve", chunks |-> <<>>, answer |-> 0,
     similarity |-> 0, precision |-> ContextPrecision(0, <<>>),
     llm |-> <<>>, nretr |-> 0, ngen |-> 0,
     retrieved |-> FALSE, nembed |-> 0, njudge |-> 0, judged |-> <<>>,
     rec |-> [k \in {"query"} |-> 0]]

\* retrieved_chunks, _ = retriever.query(query, top_k=5)
RetrieveStep(e, ro) ==
    IF ro.t = "exc"
    THEN [e EXCEPT !.nretr = @ + 1, !.pc = "raised"]
    ELSE [e EXCEPT !.nretr = @ + 1, !.chunks = ro.chunks, !.retrieved = TRUE,
                   !.pc = IF e.script \in FaithScripts THEN "generate" ELSE "metrics"]

\* generated_answer, _ = generator.generate_response(query, retrieved_chunks, [])
GenerateStep(e, go) ==
    IF go.t = "exc"
    THEN [e EXCEPT !.ngen = @ + 1, !.pc = "raised"]
    ELSE [e EXCEPT !.ngen = @ + 1, !.answer = go.answer, !.pc = "metrics"]

\* compute_context_recall: 0.0 for no chunks.
ContextRecall(truth, chunks) ==
    IF chunks = <<>> THEN 0 ELSE EmbedScore(chunks, truth)

\* compute_blobwise_similarity has no guard: it encodes " ".join([]) as well.
BlobwiseSimilarity(chunks, answer) == EmbedScore(chunks, answer)

\* The metric functions of a driver that call the embedding model on the
\* chunk list: compute_blobwise_similarity always, compute_chunkwise_similarity,
\* compute_context_precision and compute_context_recall for a non-empty list.
EncoderCalls(script, chunks) ==
    IF script \in FaithScripts
    THEN (IF chunks = <<>> THEN 1 ELSE 2)
    ELSE (IF chunks = <<>> THEN 0 ELSE 2)

\* The non-LLM metrics, computed from the chunks and the answer at hand.
MetricsStep(e) ==
    IF e.script \in FaithScripts
    THEN [e EXCEPT !.similarity = BlobwiseSimilarity(e.chunks, e.answer),
                   !.nembed = @ + EncoderCalls(e.script, e.chunks),
                   !.pc = "judge"]
    ELSE [e EXCEPT !.similarity = ContextRecall(e.truth, e.chunks),
                   !.precision = ContextPrecision(e.query, e.chunks),
                   !.nembed = @ + EncoderCalls(e.script, e.chunks),
                   !.pc = "judge"]

AllFDTKE(script) == [i \in 1..Len(LLMOrder(script)) |-> MStr("FDTKE")]

\* The next LLM metric call; an exception sets every LLM score of the entry to
\* "FDTKE" where the calls stand in a try block, and leaves the entry's
\* evaluation otherwise.
\* judged keeps what each call returned or raised.
JudgeStep(e, ret) ==
    LET fn == LLMOrder(e.script)[Len(e.llm) + 1]
        m  == LLMMetric(fn, e.chunks, ret)
        done == Len(e.llm) + 1 = Len(LLMOrder(e.script))
        called == [e EXCEPT !.njudge = IF CallsJudge(fn, e.chunks) THEN @ + 1 ELSE @,
                            !.judged = Append(@, m)]
    IN  IF m.k = "raise"
        THEN IF HasLLMTry(e.script)
             THEN [called EXCEPT !.llm = AllFDTKE(e.script), !.pc = "build"]
             ELSE [called EXCEPT !.pc = "raised"]
        ELSE [called EXCEPT !.llm = Append(@, m),
                            !.pc = IF done THEN "build" ELSE "judge"]

\* test_faithfulness.py:60 calls the generator again inside the dict literal.
Regenerates(script) == script = "test_faithfulness"

FaithRecord(e, stored) ==
    [k \in {"query", "ground_truth_answer", "generated_answer",
            "blobwise_answer_similarity", "faithfulness_score_llm",
            "faithful_coverage_llm"} |->
        CASE k = "query" -> e.query
          [] k = "ground_truth_answer" -> e.truth
          [] k = "generated_answer" -> stored
          [] k = "blobwise_answer_similarity" -> e.similarity
          [] k = "faithfulness_score_llm" -> e.llm[1]
          [] k = "faithful_coverage_llm" -> e.llm[2]]

\* test_retrieval.py:52-65
RetrievalSeqRecord(e) ==
    [k \in {"query", "Ground Truth Answer", "Context Precision", "Context Recall",
            "Context Precision (llm)", "Context Recall (llm)",
            "Retrieval Precision (llm)", "Negative Retrieval (llm)"} |->
        CASE k = "query" -> e.query
          [] k = "Ground Truth Answer" -> e.truth
          [] k = "Context Precision" -> e.precision.combined
          [] k = "Context Recall" -> e.similarity
          [] k = "Context Precision (llm)" -> e.llm[1]
          [] k = "Context Recall (llm)" -> e.llm[2]
          [] k = "Retrieval Precision (llm)" -> e.llm[3]
          [] k = "Negative Retrieval (llm)" -> e.llm[4]]

\* test_retrieval_parallel.py:49-58
RetrievalParRecord(e) ==
    [k \in {"query", "ground_truth_answer", "context_precision", "context_recall",
            "context_precision_llm", "context_recall_llm",
            "retrieval_precision_llm", "negative_retrieval_llm"} |->
        CASE k = "query" -> e.query
          [] k = "ground_truth_answer" -> e.truth
          [] k = "context_precision" -> e.precision
          [] k = "context_recall" -> e.similarity
          [] k = "context_precision_llm" -> e.llm[1]
          [] k = "context_recall_llm" -> e.llm[2]
          [] k = "retrieval_precision_llm" -> e.llm[3]
          [] k = "negative_retrieval_llm" -> e.llm[4]]

\* The dict literal of the entry's record.  test_faithfulness.py stores the
\* raw return of a second generator call; test_retrieval.py subscripts
\* context_precision, which is a float when there were no chunks.
BuildStep(e, go) ==
    CASE e.script = "test_faithfulness" ->
            IF go.t = "exc"
            THEN [e EXCEPT !.ngen = @ + 1, !.pc = "raised"]
            ELSE [e EXCEPT !.ngen = @ + 1, !.pc = "log",
                           !.rec = FaithRecord(e, [answer |-> go.answer, unpacked |-> FALSE])]
      [] e.script = "test_faithfulness_parallel" ->
            [e EXCEPT !.pc = "log",
                      !.rec = FaithRecord(e, [answer |-> e.answer, unpacked |-> TRUE])]
      [] e.script = "test_retrieval" ->
            IF e.precision.isdict
            THEN [e EXCEPT !.pc = "log", !.rec = RetrievalSeqRecord(e)]
            ELSE [e EXCEPT !.pc = "raised"]
      [] e.script = "test_retrieval_parallel" ->
            [e EXCEPT !.pc = "log", !.rec = RetrievalParRecord(e)]

\* evaluate_entry up to its log call, against given collaborator outcomes.
RECURSIVE JudgeAll(_, _)
JudgeAll(e, rets) ==
    IF e.pc # "judge" THEN e ELSE JudgeAll(JudgeStep(e, rets[Len(e.llm) + 1]), rets)

RunEntry(script, i, ro, go, rets) ==
    LET e1 == RetrieveStep(EvalStart(script, i), ro)
        e2 == IF e1.pc = "generate" THEN GenerateStep(e1, go) ELSE e1
        e3 == IF e2.pc = "metrics" THEN MetricsStep(e2) ELSE e2
        e4 == JudgeAll(e3, rets)
    IN  IF e4.pc = "build" THEN BuildStep(e4, NoOutcome) ELSE e4

\* Pool(processes=4): the worker processes of the model.
NW == 2
Workers == 1..NW

\* The collaborator outcomes tried in the pool's workers.
ParRetrieverOutcomes == { [t |-> "ok", chunks |-> <<1>>], [t |-> "exc", chunks |-> <<>>] }
ParGeneratorOutcomes == { [t |-> "ok", answer |-> 1] }
ParJudgeReturns == { RetStr(<<"7">>), RetStr(ErrorFromException(<<"timeout">>)) }

IdleWorker == [pc |-> "idle", task |-> 0, e |-> EvalStart("test_retrieval_parallel", 1),
               data |-> <<>>]

\* open(json_path, "w") has truncated the file and nothing is written yet:
\* json.load of the empty file raises JSONDecodeError.
TruncatedFile == CorruptFile

\* ------------------------------------------------------------------------
\* Idle values of each part of the state
\* ------------------------------------------------------------------------
LogIdle == file = AbsentFile /\ trace = <<>>
ParseIdle == parse = [pc |-> "idle", response |-> <<>>, result |-> Returned(0)]
JudgeIdle ==
    /\ judge = [JudgeStart("LMStudio") EXCEPT !.pc = "idle"]
    /\ endpoint = <<>>
    /\ caller = [fn |-> "none", driver |-> "none", pc |-> "idle",
                 result |-> MNum(0), recorded |-> MNum(0)]
DrvIdle ==
    drv = [script |-> "none", status |-> "idle", idx |-> 0,
           e |-> EvalStart("test_retrieval", 1), hist |-> <<>>]
PoolIdle ==
    pool = [script |-> "none", status |-> "idle", next |-> 0,
            workers |-> [w \in Workers |-> IdleWorker],
            results |-> [i \in 1..NQ |-> "pending"], writes |-> <<>>]

MetricIdle ==
    metric = [pc |-> "idle", fn |-> "none", blobcos |-> 0, chunks |-> <<>>,
              result |-> FloatResult(Rat(0, 1))]

ExportIdle ==
    export = [eval_type |-> "retrieval", start |-> AbsentFile, csv |-> NoCsv,
              op |-> "none", last |-> NoEntry]

SimIdle == sim = [pc |-> "idle"]

IngestionIdle ==
    /\ store = [pc |-> "idle"]
    /\ scraper = [pc |-> "idle"]
    /\ page = [pc |-> "idle"]
    /\ collector = [pc |-> "idle"]

\* ------------------------------------------------------------------------
\* Actions: logger, parser, judge
\* ------------------------------------------------------------------------
\* EvaluationLogger.log(data) called by a single process.
Log(d) ==
    /\ Len(trace) < MaxCalls
    /\ file' = LogToJson(file, d)
    /\ trace' = Append(trace, d)
    /\ export' = [export EXCEPT !.op = "log", !.last = NoEntry]
    /\ UNCHANGED <<parse, judge, endpoint, caller, drv, pool, metric, sim, ingestion>>

\* EvaluationLogger.read_last_entry()
ReadLastEntryCall ==
    /\ export' = [export EXCEPT !.op = "read_last_entry", !.last = ReadLastEntry(file)]
    /\ UNCHANGED <<file, trace, parse, judge, endpoint, caller, drv, pool, metric, sim, ingestion>>

\* EvaluationLogger.generate_csv()
GenerateCsvCall ==
    /\ export' = [export EXCEPT !.op = "generate_csv", !.last = NoEntry,
                                !.csv = GenerateCsv(export.eval_type, file, export.csv)]
    /\ UNCHANGED <<file, trace, parse, judge, endpoint, caller, drv, pool, metric, sim, ingestion>>

\* One call of _parse_llm_score(response).
ParseCall ==
    /\ parse.pc = "call"
    /\ parse' = [parse EXCEPT !.pc = "done", !.result = ParseLLMScore(parse.response)]
    /\ UNCHANGED <<file, trace, judge, endpoint, caller, drv, pool, export, metric, sim, ingestion>>

\* One iteration of evaluate's retry loop.
JudgeAttempt ==
    /\ judge.pc = "loop"
    /\ judge.ncalls < MaxScript
    /\ judge' = AttemptStep(judge, endpoint[judge.ncalls + 1])
    /\ UNCHANGED <<file, trace, parse, endpoint, caller, drv, pool, export, metric, sim, ingestion>>

\* evaluate has returned: the metric function parses the response and returns
\* (or raises).
MetricReturn ==
    /\ judge.pc = "returned"
    /\ caller.pc = "evaluating"
    /\ caller' = [caller EXCEPT !.pc = "returned",
                                !.result = MetricAfterEvaluate(caller.fn, judge.ret)]
    /\ UNCHANGED <<file, trace, parse, judge, endpoint, drv, pool, export, metric, sim, ingestion>>

\* The caller takes the metric's value for the query's record.
DriverRecord ==
    /\ caller.pc = "returned"
    /\ caller' = [caller EXCEPT !.pc = "recorded",
                                !.recorded = RecordedValue(caller.driver, caller.result)]
    /\ UNCHANGED <<file, trace, parse, judge, endpoint, drv, pool, export, metric, sim, ingestion>>

\* One call of compute_context_precision.
ContextPrecisionCall ==
    /\ metric.pc = "call" /\ metric.fn = "compute_context_precision"
    /\ metric' = [metric EXCEPT !.pc = "done",
                                !.result = ComputeContextPrecision(metric.blobcos, metric.chunks)]
    /\ UNCHANGED <<file, trace, parse, judge, endpoint, caller, drv, pool, export, sim, ingestion>>

\* One call of compute_context_precision_chunkwise.
ChunkwisePrecisionCall ==
    /\ metric.pc = "call" /\ metric.fn = "compute_context_precision_chunkwise"
    /\ metric' = [metric EXCEPT !.pc = "done",
                                !.result = ComputeContextPrecisionChunkwise(metric.chunks)]
    /\ UNCHANGED <<file, trace, parse, judge, endpoint, caller, drv, pool, export, sim, ingestion>>

\* One call of compute_negative_retrieval.
NegativeRetrievalCall ==
    /\ metric.pc = "call" /\ metric.fn = "compute_negative_retrieval"
    /\ metric' = [metric EXCEPT !.pc = "done",
                                !.result = ComputeNegativeRetrieval(metric.chunks)]
    /\ UNCHANGED <<file, trace, parse, judge, endpoint, caller, drv, pool, export, sim, ingestion>>

\* ------------------------------------------------------------------------
\* Actions: sequential drivers (the module-level for loop)
\* ------------------------------------------------------------------------
\* An exception in the loop body is handled nowhere: the script ends.
AfterStep(e) ==
    IF e.pc = "raised"
    THEN [drv EXCEPT !.e = e, !.status = "crashed", !.hist = Append(@, e)]
    ELSE [drv EXCEPT !.e = e]

Retrieve ==
    /\ drv.status = "running" /\ drv.e.pc = "retrieve"
    /\ \E ro \in RetrieverOutcomes : drv' = AfterStep(RetrieveStep(drv.e, ro))
    /\ UNCHANGED <<file, trace, parse, judge, endpoint, caller, pool, export, metric, sim, ingestion>>

Generate ==
    /\ drv.status = "running" /\ drv.e.pc = "generate"
    /\ \E go \in GeneratorOutcomes : drv' = AfterStep(GenerateStep(drv.e, go))
    /\ UNCHANGED <<file, trace, parse, judge, endpoint, caller, pool, export, metric, sim, ingestion>>

ComputeMetrics ==
    /\ drv.status = "running" /\ drv.e.pc = "metrics"
    /\ drv' = AfterStep(MetricsStep(drv.e))
    /\ UNCHANGED <<file, trace, parse, judge, endpoint, caller, pool, export, metric, sim, ingestion>>

JudgeMetric ==
    /\ drv.status = "running" /\ drv.e.pc = "judge"
    /\ \E ret \in JudgeReturns : drv' = AfterStep(JudgeStep(drv.e, ret))
    /\ UNCHANGED <<file, trace, parse, judge, endpoint, caller, pool, export, metric, sim, ingestion>>

BuildRecord ==
    /\ drv.status = "running" /\ drv.e.pc = "build"
    /\ \E go \in (IF Regenerates(drv.script) THEN GeneratorOutcomes ELSE {NoOutcome}) :
         drv' = AfterStep(BuildStep(drv.e, go))
    /\ UNCHANGED <<file, trace, parse, judge, endpoint, caller, pool, export, metric, sim, ingestion>>

\* logger.log(result), then the next entry or the end of the loop.
LogRecord ==
    /\ drv.status = "running" /\ drv.e.pc = "log"
    /\ file' = LogToJson(file, drv.e.rec)
    /\ drv' = [drv EXCEPT !.hist = Append(@, [drv.e EXCEPT !.pc = "logged"]),
                          !.idx = IF drv.idx < NQ THEN @ + 1 ELSE @,
                          !.e = IF drv.idx < NQ THEN EvalStart(drv.script, drv.idx + 1)
                                ELSE [drv.e EXCEPT !.pc = "logged"],
                          !.status = IF drv.idx < NQ THEN "running" ELSE "export"]
    /\ UNCHANGED <<trace, parse, judge, endpoint, caller, pool, export, metric, sim, ingestion>>

\* logger.log_to_excel(): EvaluationLogger has no such method, AttributeError.
LogToExcel ==
    /\ drv.status = "export"
    /\ drv' = [drv EXCEPT !.status = "export_raised"]
    /\ UNCHANGED <<file, trace, parse, judge, endpoint, caller, pool, export, metric, sim, ingestion>>

\* ------------------------------------------------------------------------
\* Actions: parallel drivers (pool.map(evaluate_entry, ground_truth_qna))
\* ------------------------------------------------------------------------
SetWorker(w, rec) == [pool EXCEPT !.workers[w] = rec]

\* An idle worker takes the next entry (pool.map hands out chunks of one
\* entry for a dataset of at most 16 entries).
WTake(w) ==
    /\ pool.status = "map" /\ pool.workers[w].pc = "idle" /\ pool.next <= NQ
    /\ pool' = [pool EXCEPT !.next = @ + 1,
                            !.workers[w] = [IdleWorker EXCEPT !.pc = "eval",
                                                              !.task = pool.next]]
    /\ UNCHANGED <<file, trace, parse, judge, endpoint, caller, drv, export, metric, sim, ingestion>>

\* The body of evaluate_entry's try block up to parallel_logger.log.
WEvaluate(w) ==
    /\ pool.workers[w].pc = "eval"
    /\ \E ro \in ParRetrieverOutcomes, go \in ParGeneratorOutcomes, ret \in ParJudgeReturns :
         LET e == RunEntry(pool.script, pool.workers[w].task, ro, go,
                           [i \in 1..Len(LLMOrder(pool.script)) |-> ret])
         IN  pool' = SetWorker(w, [pool.workers[w] EXCEPT
                         !.e = e,
                         !.pc = IF e.pc = "raised" THEN "handler" ELSE "log_read"])
    /\ UNCHANGED <<file, trace, parse, judge, endpoint, caller, drv, export, metric, sim, ingestion>>

\* log_to_json lines 17-30: read the whole file, merge or append in memory.
WLogRead(w) ==
    /\ pool.workers[w].pc = "log_read"
    /\ pool' = SetWorker(w, [pool.workers[w] EXCEPT
                   !.data = MergeOrAppend(LoadExisting(file), pool.workers[w].e.rec),
                   !.pc = "log_open"])
    /\ UNCHANGED <<file, trace, parse, judge, endpoint, caller, drv, export, metric, sim, ingestion>>

\* line 32: open(json_path, "w") truncates the file.
WLogOpen(w) ==
    /\ pool.workers[w].pc = "log_open"
    /\ file' = TruncatedFile
    /\ pool' = SetWorker(w, [pool.workers[w] EXCEPT !.pc = "log_dump"])
    /\ UNCHANGED <<trace, parse, judge, endpoint, caller, drv, export, metric, sim, ingestion>>

\* line 33: json.dump and close.  The bytes go to offset 0; when another
\* process has written since this one's open, the file holds this list or a
\* mix of the two texts that does not parse.
WLogDump(w) ==
    /\ pool.workers[w].pc = "log_dump"
    /\ \/ file' = JsonDump(pool.workers[w].data)
       \/ file # TruncatedFile /\ file' = CorruptFile
    /\ pool' = [pool EXCEPT !.workers[w] = IdleWorker,
                            !.results[pool.workers[w].task] = "ok",
                            !.writes = Append(@, pool.workers[w].e.query)]
    /\ UNCHANGED <<trace, parse, judge, endpoint, caller, drv, export, metric, sim, ingestion>>

\* except Exception: parallel_logger.log_error(...) - EvaluationLogger has no
\* such method: AttributeError leaves evaluate_entry, the task fails.
WHandler(w) ==
    /\ pool.workers[w].pc = "handler"
    /\ pool' = [pool EXCEPT !.workers[w] = IdleWorker,
                            !.results[pool.workers[w].task] = "failed"]
    /\ UNCHANGED <<file, trace, parse, judge, endpoint, caller, drv, export, metric, sim, ingestion>>

\* pool.map returns once every task has finished, re-raising a task's
\* exception in the parent.
PoolMapReturn ==
    /\ pool.status = "map"
    /\ \A i \in 1..NQ : pool.results[i] # "pending"
    /\ pool' = [pool EXCEPT !.status =
                   IF \E i \in 1..NQ : pool.results[i] = "failed" THEN "map_raised"
                   ELSE "export"]
    /\ UNCHANGED <<file, trace, parse, judge, endpoint, caller, drv, export, metric, sim, ingestion>>

\* parallel_logger.log_to_excel(): AttributeError, as in the sequential drivers.
PoolLogToExcel ==
    /\ pool.status = "export"
    /\ pool' = [pool EXCEPT !.status = "export_raised"]
    /\ UNCHANGED <<file, trace, parse, judge, endpoint, caller, drv, export, metric, sim, ingestion>>

\* ------------------------------------------------------------------------
\* Specifications
\* ------------------------------------------------------------------------
\* The logger used by one process.
Init ==
    /\ file \in {AbsentFile, JsonDump(<<>>)}
    /\ trace = <<>>
    /\ ParseIdle /\ JudgeIdle /\ DrvIdle /\ PoolIdle /\ ExportIdle /\ MetricIdle
    /\ SimIdle /\ IngestionIdle

Next == \E d \in LogRecords : Log(d)

Spec == Init /\ [][Next]_vars

\* The logger and its readers used by one process, on a log file that may be
\* absent, empty or left unparseable by an earlier run.
InitExport ==
    /\ file \in {AbsentFile, CorruptFile, JsonDump(<<>>)}
    /\ trace = <<>>
    /\ ParseIdle /\ JudgeIdle /\ DrvIdle /\ PoolIdle /\ MetricIdle
    /\ SimIdle /\ IngestionIdle
    /\ \E t \in EvalTypes :
         export = [eval_type |-> t, start |-> file, csv |-> NoCsv,
                   op |-> "none", last |-> NoEntry]

NextExport ==
    \/ \E d \in ExportRecords : Len(trace) < MaxLogged /\ Log(d)
    \/ ReadLastEntryCall
    \/ GenerateCsvCall

SpecExport == InitExport /\ [][NextExport]_vars

\* One call of a BM25/cosine metric function on scored chunks.
InitMetric ==
    /\ LogIdle /\ ParseIdle /\ JudgeIdle /\ DrvIdle /\ PoolIdle /\ ExportIdle
    /\ SimIdle /\ IngestionIdle
    /\ \E fn \in MetricFns, b \in BlobCosines, c \in ScoredChunkLists :
         metric = [pc |-> "call", fn |-> fn, blobcos |-> b, chunks |-> c,
                   result |-> FloatResult(Rat(0, 1))]

NextMetric == ContextPrecisionCall \/ ChunkwisePrecisionCall \/ NegativeRetrievalCall

SpecMetric == InitMetric /\ [][NextMetric]_vars

\* _parse_llm_score on every bounded response string.
InitParse ==
    /\ LogIdle /\ JudgeIdle /\ DrvIdle /\ PoolIdle /\ ExportIdle /\ MetricIdle
    /\ SimIdle /\ IngestionIdle
    /\ \E r \in ParseInputs :
         parse = [pc |-> "call", response |-> r, result |-> Returned(0)]

NextParse == ParseCall

SpecParse == InitParse /\ [][NextParse]_vars

\* One evaluate call against a scripted endpoint and, for the evaluation model
\* the drivers use (LMStudio), the calling metric function's return and its
\* caller's recording of it.
InitJudge ==
    /\ LogIdle /\ ParseIdle /\ DrvIdle /\ PoolIdle /\ ExportIdle /\ MetricIdle
    /\ SimIdle /\ IngestionIdle
    /\ \E kind \in JudgeKinds :
         /\ judge = JudgeStart(kind)
         /\ endpoint \in Scripts(kind)
         /\ IF kind # "LMStudio"
            THEN caller = [fn |-> "none", driver |-> "none", pc |-> "direct",
                           result |-> MNum(0), recorded |-> MNum(0)]
            ELSE \E fn \in LLMFns : \E d \in DriversOf(fn) :
                   caller = [fn |-> fn, driver |-> d, pc |-> "evaluating",
                             result |-> MNum(0), recorded |-> MNum(0)]

NextJudge == JudgeAttempt \/ MetricReturn \/ DriverRecord

SpecJudge == InitJudge /\ [][NextJudge]_vars

\* A sequential batch run over the dataset.
InitBatch ==
    /\ LogIdle /\ ParseIdle /\ JudgeIdle /\ PoolIdle /\ ExportIdle /\ MetricIdle
    /\ SimIdle /\ IngestionIdle
    /\ \E s \in SequentialScripts :
         drv = [script |-> s, status |-> "running", idx |-> 1,
                e |-> EvalStart(s, 1), hist |-> <<>>]

NextBatch ==
    \/ Retrieve \/ Generate \/ ComputeMetrics \/ JudgeMetric
    \/ BuildRecord \/ LogRecord \/ LogToExcel

SpecBatch == InitBatch /\ [][NextBatch]_vars

\* A parallel batch run: the pool's workers share only the log file.
InitPar ==
    /\ LogIdle /\ ParseIdle /\ JudgeIdle /\ DrvIdle /\ ExportIdle /\ MetricIdle
    /\ SimIdle /\ IngestionIdle
    /\ \E s \in ParallelScripts :
         pool = [script |-> s, status |-> "map", next |-> 1,
                 workers |-> [w \in Workers |-> IdleWorker],
                 results |-> [i \in 1..NQ |-> "pending"], writes |-> <<>>]

NextPar ==
    \/ \E w \in Workers :
         WTake(w) \/ WEvaluate(w) \/ WLogRead(w) \/ WLogOpen(w) \/ WLogDump(w) \/ WHandler(w)
    \/ PoolMapReturn \/ PoolLogToExcel

SpecPar == InitPar /\ [][NextPar]_vars

\* ------------------------------------------------------------------------
\* Text similarity scores: cosine of embeddings and ROUGE-1
\* (src/evaluator/retrieval_eval.py, src/evaluator/faithfulness_eval.py)
\* ------------------------------------------------------------------------
NTexts == 3

\* The texts given to the encoder, and the vectors it can give them.  The
\* encoder is external: its state is some function from texts to vectors.
SimTexts == 1..NTexts
Vectors == {<<3, 4>>, <<4, 3>>, <<0 - 3, 4>>, <<6, 8>>, <<0, 0>>}
Encoders == [SimTexts -> Vectors]

Dot(x, y) == x[1] * y[1] + x[2] * y[2]

\* The Euclidean norm; sklearn's normalize divides a zero row by 1.
Norm(x) ==
    LET n == CHOOSE k \in 0..10 : k * k = Dot(x, x)
    IN  IF n = 0 THEN 1 ELSE n

\* A similarity that divides by the first vector's norm only.
CosineSimilarity_FirstNorm(x, y) == Rat(Dot(x, y), Norm(x) * Norm(x))

\* sklearn.metrics.pairwise.cosine_similarity on one row each: the dot
\* product of the two normalized rows.
CosineSimilarity(x, y) == Rat(Dot(x, y), Norm(x) * Norm(y))

\* " ".join(retrieved_chunks) of a one-chunk list is the chunk.
JoinOne(chunks) == chunks[1]

\* The cosine part of compute_context_precision(query, retrieved_chunks) and
\* compute_blobwise_similarity(query, retrieved_chunks, generated_answer):
\* the text's and the joined chunks' embeddings, compared and scaled by 10.
CosineScore(encoder, text, chunks) ==
    RatMulInt(CosineSimilarity(encoder[text], encoder[JoinOne(chunks)]), 10)

\* A text is the list of its blank-separated words.
GroundTruthText ==
    <<"A", "crafting", "table", "is", "made", "from", "4", "wood", "planks.">>
CraftingChunk ==
    <<"Crafting", "table:", "requires", "4", "planks", "of", "any", "wood", "type.">>
FurnaceChunk == <<"Furnace:", "requires", "8", "cobblestone.">>

RougeChunkLists == UNION { [1..n -> {CraftingChunk, FurnaceChunk}] : n \in 0..MaxChunks }

\* " ".join(retrieved_chunks)
RECURSIVE JoinChunks(_)
JoinChunks(chunks) ==
    IF chunks = <<>> THEN <<>> ELSE Head(chunks) \o JoinChunks(Tail(chunks))

\* A join that keeps the first chunk only.
ScoredText_FirstChunk(chunks) == Head(chunks)

\* The prediction compute_context_recall hands to the scorer.
ScoredText(chunks) == JoinChunks(chunks)

\* rouge_score's tokenizer with use_stemmer=True, on one word: lower case,
\* letters and digits only, Porter stem for a token longer than 3.
RougeToken(word) ==
    CASE word = "A" -> "a"
      [] word \in {"crafting", "Crafting"} -> "craft"
      [] word \in {"table", "table:"} -> "tabl"
      [] word \in {"planks", "planks."} -> "plank"
      [] word = "requires" -> "requir"
      [] word = "type." -> "type"
      [] word = "Furnace:" -> "furnac"
      [] word = "cobblestone." -> "cobbleston"
      [] OTHER -> word

Tokenize(text) == [k \in 1..Len(text) |-> RougeToken(text[k])]

CountOf(token, tokens) == Cardinality({ k \in 1..Len(tokens) : tokens[k] = token })

Min2(a, b) == IF a <= b THEN a ELSE b

RECURSIVE SumOver(_, _, _)
SumOver(S, target, prediction) ==
    IF S = {} THEN 0
    ELSE LET t == CHOOSE x \in S : TRUE
         IN  Min2(CountOf(t, target), CountOf(t, prediction))
             + SumOver(S \ {t}, target, prediction)

RatMul(a, b) == Rat(a.n * b.n, a.d * b.d)
RatDiv(a, b) == Rat(a.n * b.d, a.d * b.n)

\* rouge_scorer's rouge1 fmeasure: clipped unigram matches over the
\* prediction's length (precision) and over the target's (recall).
Rouge1FMeasure(target, prediction) ==
    LET tt == Tokenize(target)
        pt == Tokenize(prediction)
        matches == SumOver({ tt[k] : k \in 1..Len(tt) }, tt, pt)
        precision == Rat(matches, IF Len(pt) > 0 THEN Len(pt) ELSE 1)
        recall == Rat(matches, IF Len(tt) > 0 THEN Len(tt) ELSE 1)
    IN  IF matches > 0
        THEN RatDiv(RatMulInt(RatMul(precision, recall), 2), RatAdd(precision, recall))
        ELSE Rat(0, 1)

\* rouge_n_score of compute_context_recall (lines 93-98); the function
\* returns 0.0 before any scoring when no chunk was retrieved.
RougeNScore(truth, chunks) ==
    IF chunks = <<>> THEN Rat(0, 1)
    ELSE RatMulInt(Rouge1FMeasure(truth, ScoredText(chunks)), 10)

\* One cosine score, called on (a, [b]) and on (b, [a]).
CosineCall ==
    /\ sim.pc = "call" /\ sim.fn \in {"compute_context_precision", "compute_blobwise_similarity"}
    /\ sim' = [sim EXCEPT !.pc = "done",
                          !.ab = CosineScore(sim.encoder, sim.a, <<sim.b>>),
                          !.ba = CosineScore(sim.encoder, sim.b, <<sim.a>>)]
    /\ UNCHANGED <<file, trace, parse, judge, endpoint, caller, drv, pool, export, metric,
                   ingestion>>

\* The ROUGE-1 component of one compute_context_recall call.
ContextRecallCall ==
    /\ sim.pc = "call" /\ sim.fn = "compute_context_recall"
    /\ sim' = [sim EXCEPT !.pc = "done",
                          !.rouge = RougeNScore(sim.truth, sim.chunks)]
    /\ UNCHANGED <<file, trace, parse, judge, endpoint, caller, drv, pool, export, metric,
                   ingestion>>

\* One call of a similarity score: a cosine score on two texts under some
\* encoder, or the context recall of the crafting-table question.
InitSim ==
    /\ LogIdle /\ ParseIdle /\ JudgeIdle /\ DrvIdle /\ PoolIdle /\ ExportIdle /\ MetricIdle
    /\ IngestionIdle
    /\ \/ \E fn \in {"compute_context_precision", "compute_blobwise_similarity"},
             encoder \in Encoders, a \in SimTexts, b \in SimTexts :
               sim = [pc |-> "call", fn |-> fn, encoder |-> encoder, a |-> a, b |-> b,
                      truth |-> <<>>, chunks |-> <<>>,
                      ab |-> Rat(0, 1), ba |-> Rat(0, 1), rouge |-> Rat(0, 1)]
       \/ \E chunks \in RougeChunkLists :
               sim = [pc |-> "call", fn |-> "compute_context_recall",
                      encoder |-> [t \in SimTexts |-> <<0, 0>>], a |-> 1, b |-> 1,
                      truth |-> GroundTruthText, chunks |-> chunks,
                      ab |-> Rat(0, 1), ba |-> Rat(0, 1), rouge |-> Rat(0, 1)]

NextSim == CosineCall \/ ContextRecallCall

SpecSim == InitSim /\ [][NextSim]_vars

\* ------------------------------------------------------------------------
\* VectorStore (src/embedderv2/vector_store.py)
\* ------------------------------------------------------------------------
NIds == 2
MaxEntries == 2

ChunkIds == 1..NIds

\* What an entry carries besides its chunk_id: embedding, text, title, source.
Payloads == {1, 2}

EmbeddingEntries == [chunk_id : ChunkIds, payload : Payloads]
EmbeddingLists == UNION { [1..n -> EmbeddingEntries] : n \in 0..MaxEntries }

\* The collection is the list of the records added to it, oldest first.
StoredIds(coll) == { coll[i].chunk_id : i \in 1..Len(coll) }

\* self.collection.get(ids=[chunk_id]) answers or raises.
GetOutcomes == {"ok", "exc"}

\* chunk_exists: bool(existing_chunk["ids"]), False when get raised.
ChunkExists(coll, chunk_id, get) ==
    IF get = "exc" THEN FALSE ELSE chunk_id \in StoredIds(coll)

\* chromadb's Collection.add for one record: a new id is stored; for an id
\* already in the collection the record is not stored, and the call returns
\* or raises depending on the chromadb release.
AddOutcomes == {"ignored", "raises"}

CollectionAdd(coll, entry) ==
    IF entry.chunk_id \in StoredIds(coll) THEN coll ELSE Append(coll, entry)

\* add_to_vector_db(embeddings) at the head of its for loop.  before, rerun
\* and run keep the collection at the call, whether the call repeats the
\* previous call's input, and whether it is the first call or a later one.
AddToVectorDbStart(s, embeddings) ==
    [pc |-> "loop", coll |-> s.coll, embeddings |-> embeddings, i |-> 1,
     added |-> 0, skipped |-> 0, before |-> s.coll,
     rerun |-> (s.run # "none" /\ embeddings = s.embeddings),
     run |-> IF s.run = "none" THEN "first" ELSE "again"]

\* A loop body that replaces the stored record of a known chunk_id.
AddEntryStep_Upsert(s, get, dup) ==
    LET entry == s.embeddings[s.i]
    IN  [s EXCEPT !.coll = IF entry.chunk_id \in StoredIds(@)
                           THEN [k \in 1..Len(@) |->
                                    IF @[k].chunk_id = entry.chunk_id THEN entry ELSE @[k]]
                           ELSE Append(@, entry),
                  !.added = @ + 1, !.i = @ + 1]

\* lines 64-82: one iteration of `for entry in embeddings`.
AddEntryStep(s, get, dup) ==
    LET entry == s.embeddings[s.i]
    IN  IF ChunkExists(s.coll, entry.chunk_id, get)
        THEN [s EXCEPT !.skipped = @ + 1, !.i = @ + 1]
        ELSE IF entry.chunk_id \in StoredIds(s.coll) /\ dup = "raises"
             THEN [s EXCEPT !.pc = "raised"]
             ELSE [s EXCEPT !.coll = CollectionAdd(@, entry),
                            !.added = @ + 1, !.i = @ + 1]

\* A call of add_to_vector_db on a loaded list: process_files calls it for
\* every file, and again when the script is run again.
AddToVectorDbCall ==
    /\ store.pc \in {"ready", "done"}
    /\ store.run # "again"
    /\ \E embeddings \in EmbeddingLists : store' = AddToVectorDbStart(store, embeddings)
    /\ UNCHANGED <<harness, scraper, page, collector>>

AddToVectorDbEntry ==
    /\ store.pc = "loop"
    /\ store.i <= Len(store.embeddings)
    /\ \E get \in GetOutcomes :
         \E dup \in (IF get = "exc" THEN AddOutcomes ELSE {"ignored"}) :
             store' = AddEntryStep(store, get, dup)
    /\ UNCHANGED <<harness, scraper, page, collector>>

\* line 84: the loop is over, the counts are logged.
AddToVectorDbReturn ==
    /\ store.pc = "loop"
    /\ store.i > Len(store.embeddings)
    /\ store' = [store EXCEPT !.pc = "done"]
    /\ UNCHANGED <<harness, scraper, page, collector>>

\* A vector store on a collection that is empty or holds records of an
\* earlier run.
InitStore ==
    /\ LogIdle /\ ParseIdle /\ JudgeIdle /\ DrvIdle /\ PoolIdle /\ ExportIdle /\ MetricIdle
    /\ SimIdle
    /\ scraper = [pc |-> "idle"] /\ page = [pc |-> "idle"] /\ collector = [pc |-> "idle"]
    /\ \E coll \in {<<>>, <<[chunk_id |-> 1, payload |-> 1]>>} :
         store = [pc |-> "ready", coll |-> coll, embeddings |-> <<>>, i |-> 1,
                  added |-> 0, skipped |-> 0, before |-> coll, rerun |-> FALSE,
                  run |-> "none"]

NextStore == AddToVectorDbCall \/ AddToVectorDbEntry \/ AddToVectorDbReturn

SpecStore == InitStore /\ [][NextStore]_vars

\* ------------------------------------------------------------------------
\* MinecraftWikiScraper.run (src/scraperv2/scraper.py)
\* ------------------------------------------------------------------------
NTopics == 2
MaxTopics == 3

Topics == 1..NTopics
TopicLists == UNION { [1..n -> Topics] : n \in 0..MaxTopics }

\* data/raw/{topic}.json: absent, written by an earlier run, written by this
\* run, or opened for writing by this run and left unfinished.
RawFiles == {"absent", "earlier", "saved", "unfinished"}

\* os.path.exists(json_path)
RawExists(raw, topic) == raw[topic] # "absent"

\* The body of the try block for one topic: everything succeeds, or
\* fetch_page raises, or parse_sections / extract_tables /
\* extract_crafting_recipe raises, or save_to_json raises before or after
\* it has opened the file.
ScrapeOutcomes == {"ok", "fetch_raises", "parse_raises", "open_raises", "dump_raises"}

FileAfter(outcome) ==
    CASE outcome = "ok" -> "saved"
      [] outcome = "dump_raises" -> "unfinished"
      [] OTHER -> "absent"

\* A loop body without the try block: the exception ends run.
ScrapeTopicStep_Unguarded(s, outcome) ==
    LET topic == s.topics[s.i]
    IN  IF RawExists(s.raw, topic)
        THEN [s EXCEPT !.i = @ + 1]
        ELSE IF outcome = "ok"
             THEN [s EXCEPT !.fetched = Append(@, topic), !.raw[topic] = "saved",
                            !.i = @ + 1]
             ELSE [s EXCEPT !.fetched = Append(@, topic),
                            !.raw[topic] = FileAfter(outcome), !.pc = "raised"]

\* lines 245-260: one iteration of `for topic in self.topics`.  fetched and
\* errors keep the topics passed to fetch_page and to logging.error.
ScrapeTopicStep(s, outcome) ==
    LET topic == s.topics[s.i]
    IN  IF RawExists(s.raw, topic)
        THEN [s EXCEPT !.i = @ + 1]
        ELSE [s EXCEPT !.fetched = Append(@, topic),
                       !.raw[topic] = FileAfter(outcome),
                       !.errors = IF outcome = "ok" THEN @ ELSE Append(@, topic),
                       !.i = @ + 1]

ScrapeTopic ==
    /\ scraper.pc = "loop"
    /\ scraper.i <= Len(scraper.topics)
    /\ \E outcome \in ScrapeOutcomes : scraper' = ScrapeTopicStep(scraper, outcome)
    /\ UNCHANGED <<harness, store, page, collector>>

\* line 262: self.browser.quit()
BrowserQuit ==
    /\ scraper.pc = "loop"
    /\ scraper.i > Len(scraper.topics)
    /\ scraper' = [scraper EXCEPT !.quits = @ + 1, !.pc = "done"]
    /\ UNCHANGED <<harness, store, page, collector>>

\* A scraper built for a batch of topics, some of them scraped by an earlier
\* run; start keeps data/raw as run found it.
InitScraper ==
    /\ LogIdle /\ ParseIdle /\ JudgeIdle /\ DrvIdle /\ PoolIdle /\ ExportIdle /\ MetricIdle
    /\ SimIdle
    /\ store = [pc |-> "idle"] /\ page = [pc |-> "idle"] /\ collector = [pc |-> "idle"]
    /\ \E topics \in TopicLists, raw \in [Topics -> {"absent", "earlier"}] :
         scraper = [pc |-> "loop", topics |-> topics, i |-> 1, raw |-> raw,
                    start |-> raw, fetched |-> <<>>, errors |-> <<>>, quits |-> 0]

NextScraper == ScrapeTopic \/ BrowserQuit

SpecScraper == InitScraper /\ [][NextScraper]_vars

\* ------------------------------------------------------------------------
\* MinecraftWikiScraper.parse_sections (src/scraperv2/scraper.py,
\* src/scraper/scraper.py)
\* ------------------------------------------------------------------------
MaxElems == 4

\* The elements of div.mw-parser-output that parse_sections looks at, in
\* document order: headings, lists and paragraphs.  A paragraph is a direct
\* child of the div (top) or stands inside another element, and its text may
\* be blank.
Tag(tag, top, blank) == [tag |-> tag, top |-> top, blank |-> blank]

ElementKinds ==
    { Tag("h2", TRUE, FALSE), Tag("h3", TRUE, FALSE), Tag("ul", TRUE, FALSE),
      Tag("ol", TRUE, FALSE), Tag("p", TRUE, FALSE), Tag("p", TRUE, TRUE),
      Tag("p", FALSE, FALSE) }

Documents == UNION { [1..n -> ElementKinds] : n \in 0..MaxElems }

\* An element's text is told from the others' by the element's place (id).
Numbered(doc) ==
    [k \in 1..Len(doc) |->
        [id |-> k, tag |-> doc[k].tag, top |-> doc[k].top, blank |-> doc[k].blank]]

\* {"heading": ..., "text": ..., "subsections": [...]}; intro tells the
\* section headed "Introduction" from a section headed by an h2's text.
NewSection(id) == [intro |-> FALSE, heading |-> id, text |-> <<>>, subsections |-> <<>>]
IntroductionSection(id) ==
    [intro |-> TRUE, heading |-> id, text |-> <<id>>, subsections |-> <<>>]
NewSubsection(id) == [subheading |-> id, text |-> <<>>]

\* child.decompose()
Decompose(elements, k) ==
    [j \in 1..(Len(elements) - 1) |-> IF j < k THEN elements[j] ELSE elements[j + 1]]

\* parse_sections(soup, topic) at its first statement; current is the list
\* holding current_section, empty for None.
ParseStart(doc, hascontent) ==
    [pc |-> "intro", content |-> hascontent, doc |-> Numbered(doc), rest |-> <<>>,
     sections |-> <<>>, current |-> <<>>]

\* lines 67-92: no content div gives []; else the first direct child named p
\* is taken out of the tree, and its text, when not blank, heads the result
\* as the section "Introduction".
ExtractIntroStep(s) ==
    IF ~s.content THEN [s EXCEPT !.pc = "done"]
    ELSE LET paragraphs == { k \in 1..Len(s.doc) : s.doc[k].tag = "p" /\ s.doc[k].top }
         IN  IF paragraphs = {}
             THEN [s EXCEPT !.pc = "scan", !.rest = s.doc]
             ELSE LET k == SetMin(paragraphs)
                  IN  [s EXCEPT !.pc = "scan",
                                !.rest = Decompose(s.doc, k),
                                !.sections = IF s.doc[k].blank THEN <<>>
                                             ELSE <<IntroductionSection(s.doc[k].id)>>]

\* A loop body that puts every text into the section's own text.
ScanElementStep_TextToSection(s) ==
    LET element == Head(s.rest)
        popped == [s EXCEPT !.rest = Tail(@)]
    IN  CASE element.tag = "h2" ->
               [popped EXCEPT !.sections = @ \o s.current,
                              !.current = <<NewSection(element.id)>>]
          [] element.tag = "h3" ->
               IF s.current # <<>>
               THEN [popped EXCEPT !.current[1].subsections =
                                       Append(@, NewSubsection(element.id))]
               ELSE popped
          [] OTHER ->
               IF s.current # <<>>
               THEN [popped EXCEPT !.current[1].text = Append(@, element.id)]
               ELSE popped

\* lines 95-111: one iteration over find_all(["h2", "h3", "p", "ul", "ol"]).
ScanElementStep(s) ==
    LET element == Head(s.rest)
        popped == [s EXCEPT !.rest = Tail(@)]
    IN  CASE element.tag = "h2" ->
               [popped EXCEPT !.sections = @ \o s.current,
                              !.current = <<NewSection(element.id)>>]
          [] element.tag = "h3" ->
               IF s.current # <<>>
               THEN [popped EXCEPT !.current[1].subsections =
                                       Append(@, NewSubsection(element.id))]
               ELSE popped
          [] OTHER ->
               IF s.current # <<>>
               THEN IF s.current[1].subsections # <<>>
                    THEN [popped EXCEPT
                            !.current[1].subsections[Len(s.current[1].subsections)].text =
                                Append(@, element.id)]
                    ELSE [popped EXCEPT !.current[1].text = Append(@, element.id)]
               ELSE popped

\* lines 113-116: the section still open is appended, sections is returned.
ReturnSectionsStep(s) ==
    [s EXCEPT !.sections = @ \o s.current, !.current = <<>>, !.pc = "done"]

ExtractIntro ==
    /\ page.pc = "intro"
    /\ page' = ExtractIntroStep(page)
    /\ UNCHANGED <<harness, store, scraper, collector>>

ScanElement ==
    /\ page.pc = "scan" /\ page.rest # <<>>
    /\ page' = ScanElementStep(page)
    /\ UNCHANGED <<harness, store, scraper, collector>>

ReturnSections ==
    /\ page.pc = "scan" /\ page.rest = <<>>
    /\ page' = ReturnSectionsStep(page)
    /\ UNCHANGED <<harness, store, scraper, collector>>

\* parse_sections on every bounded page, and on a page without content div.
InitPage ==
    /\ LogIdle /\ ParseIdle /\ JudgeIdle /\ DrvIdle /\ PoolIdle /\ ExportIdle /\ MetricIdle
    /\ SimIdle
    /\ store = [pc |-> "idle"] /\ scraper = [pc |-> "idle"] /\ collector = [pc |-> "idle"]
    /\ \/ \E doc \in Documents : page = ParseStart(doc, TRUE)
       \/ page = ParseStart(<<>>, FALSE)

NextPage == ExtractIntro \/ ScanElement \/ ReturnSections

SpecPage == InitPage /\ [][NextPage]_vars

\* ------------------------------------------------------------------------
\* CategoryPageCollector (src/scraperv2/page_collector.py)
\* ------------------------------------------------------------------------
NUrls == 3
MaxFetches == 5

\* max_retries=3 in __init__'s signature.
DefaultMaxRetries == 3

\* The category's result pages; 1 is the category URL itself.  Page u lists
\* the article u, and its 'next page' link leads to a page or is missing (0).
Urls == 1..NUrls
NoUrl == 0
Sites == [Urls -> Urls \cup {NoUrl}]

\* pages.json before the run: absent, unreadable, or a list of page names.
\* NUrls + 1 is an article of an earlier run that the category lists no more.
PagesFiles ==
    { [exists |-> FALSE, ok |-> FALSE, pages |-> {}],
      [exists |-> TRUE, ok |-> FALSE, pages |-> {}] }
    \cup { [exists |-> TRUE, ok |-> TRUE, pages |-> P] : P \in SUBSET {1, NUrls + 1} }

\* load_existing_pages: the file's pages, nothing when it is absent or
\* json.load raises.
LoadExistingPages(f) == IF f.exists /\ f.ok THEN f.pages ELSE {}

\* fetch_page_with_selenium returns a driver on the page or raises.
FetchOutcomes == {"ok", "raises"}

\* __init__ and the first two statements of run.  loaded, fetches and saves
\* keep the pages read from pages.json and count the calls of
\* fetch_page_with_selenium (up to MaxFetches) and of save_pages.
CollectorStart(site, f, max_retries) ==
    [pc |-> "loop", site |-> site, output_file |-> f, max_retries |-> max_retries,
     pages_collected |-> LoadExistingPages(f), loaded |-> LoadExistingPages(f),
     current_url |-> 1, retry_count |-> 0, fetches |-> 0, saves |-> 0]

Counted(n) == IF n < MaxFetches THEN n + 1 ELSE n

\* lines 113-126: one iteration of `while current_url and retry_count <
\* self.max_retries`, the loop test after it included.  No statement assigns
\* retry_count.
FetchPageStep(c, outcome) ==
    IF outcome = "raises"
    THEN [c EXCEPT !.pc = "raised", !.fetches = Counted(@)]
    ELSE LET next_url == c.site[c.current_url]
             fetched == [c EXCEPT !.fetches = Counted(@),
                                  !.pages_collected = @ \cup {c.current_url}]
         IN  IF next_url # NoUrl
             THEN [fetched EXCEPT !.current_url = next_url,
                                  !.pc = IF c.retry_count < c.max_retries
                                         THEN "loop" ELSE "save"]
             ELSE [fetched EXCEPT !.pc = "save"]

\* The loop test on entry: max_retries = 0 skips the loop.
EnterLoop(c) == IF c.retry_count < c.max_retries THEN c ELSE [c EXCEPT !.pc = "save"]

FetchPage ==
    /\ collector.pc = "loop"
    /\ \E outcome \in FetchOutcomes : collector' = FetchPageStep(collector, outcome)
    /\ UNCHANGED <<harness, store, scraper, page>>

\* line 128: save_pages() writes pages_collected to pages.json.
SavePages ==
    /\ collector.pc = "save"
    /\ collector' = [collector EXCEPT
                       !.output_file = [exists |-> TRUE, ok |-> TRUE,
                                        pages |-> collector.pages_collected],
                       !.saves = @ + 1,
                       !.pc = "saved"]
    /\ UNCHANGED <<harness, store, scraper, page>>

\* A collector built on a category whose pages link to one another in any
\* way, run once.
InitCollector ==
    /\ LogIdle /\ ParseIdle /\ JudgeIdle /\ DrvIdle /\ PoolIdle /\ ExportIdle /\ MetricIdle
    /\ SimIdle
    /\ store = [pc |-> "idle"] /\ scraper = [pc |-> "idle"] /\ page = [pc |-> "idle"]
    /\ \E site \in Sites, f \in PagesFiles, max_retries \in {0, DefaultMaxRetries} :
         collector = EnterLoop(CollectorStart(site, f, max_retries))

NextCollector == FetchPage \/ SavePages

\* run is one sequential call: it goes on as long as it has a next statement.
SpecCollector == InitCollector /\ [][NextCollector]_vars /\ WF_vars(NextCollector)

\* ------------------------------------------------------------------------
\* Properties of the logger
\* ------------------------------------------------------------------------
PositionsOf(q) == { i \in 1..Len(file.data) : GetQuery(file.data[i]) = q }

\* C1: after any sequence of log calls the persisted log holds at most one
\* record per unique query string.
C1_OneRecordPerQuery ==
    file.exists /\ file.ok =>
        \A q \in Queries : Cardinality(PositionsOf(q)) <= 1

\* C2: logging r1 and then r2 with the same query (a query the log did not
\* hold before) leaves exactly one record for that query, whose fields are
\* the union of r1's and r2's fields, fields of both taking r2's value.
LastTwoSameFreshQuery ==
    /\ Len(trace) >= 2
    /\ GetQuery(trace[Len(trace) - 1]) = GetQuery(trace[Len(trace)])
    /\ \A i \in 1..(Len(trace) - 2) : GetQuery(trace[i]) # GetQuery(trace[Len(trace)])

IsUnionSecondWins(rec, r1, r2) ==
    /\ DOMAIN rec = (DOMAIN r1) \cup (DOMAIN r2)
    /\ \A k \in DOMAIN r2 : rec[k] = r2[k]
    /\ \A k \in (DOMAIN r1) \ (DOMAIN r2) : rec[k] = r1[k]

C2_MergeIsUnionSecondWins ==
    LastTwoSameFreshQuery =>
        LET r1 == trace[Len(trace) - 1]
            r2 == trace[Len(trace)]
            P  == PositionsOf(GetQuery(r2))
        IN  /\ Cardinality(P) = 1
            /\ \A i \in P : IsUnionSecondWins(file.data[i], r1, r2)

\* r1 and r2 share a key with different values and each has a key of its own
\* or the other lacks: the merge had something to overwrite.
C2_Witness ==
    /\ LastTwoSameFreshQuery
    /\ LET r1 == trace[Len(trace) - 1]
           r2 == trace[Len(trace)]
       IN  /\ "context_recall" \in (DOMAIN r1) \cap (DOMAIN r2)
           /\ r1["context_recall"] # r2["context_recall"]
           /\ "context_precision_llm" \in (DOMAIN r1) \ (DOMAIN r2)
    /\ Len(file.data) = Len(trace) - 1

Usable(f) == f.exists /\ f.ok /\ f.data # <<>>

\* C12: when the log file exists but does not parse, log treats the log as
\* empty and leaves a well-formed file holding exactly the new record, and
\* read_last_entry and generate_csv return (None, and no export written).
C12_CorruptLogRecovered ==
    [][file.exists /\ ~file.ok =>
        /\ trace' # trace => file' = JsonDump(<<trace'[Len(trace')]>>)
        /\ trace' = trace /\ export'.op = "read_last_entry" =>
              file' = file /\ export'.last = NoEntry
        /\ trace' = trace /\ export'.op = "generate_csv" =>
              file' = file /\ export'.csv = export.csv]_vars

C12_Witness ==
    /\ export.start = CorruptFile
    /\ Len(trace) = 1
    /\ file = JsonDump(trace)
    /\ export.op = "read_last_entry"
    /\ export.last = SomeEntry(trace[1])

\* C13: a log call on a well-formed log keeps every record at its position,
\* unchanged unless the new record has its query, and the number of records
\* stays (merge) or grows by one (append); no other operation changes the log.
C13_AppendOnlyButMerge ==
    [][file.exists /\ file.ok =>
        /\ file'.exists /\ file'.ok
        /\ trace' = trace => file' = file
        /\ trace' # trace =>
              LET old == file.data
                  new == file'.data
                  d == trace'[Len(trace')]
              IN  /\ Len(new) \in {Len(old), Len(old) + 1}
                  /\ \A i \in 1..Len(old) :
                        GetQuery(old[i]) # GetQuery(d) => new[i] = old[i]
                  /\ Len(new) = Len(old) =>
                        GetQuery(old[Len(old)]) = GetQuery(d)
                  /\ GetQuery(new[Len(new)]) = GetQuery(d)]_vars

C13_Witness ==
    /\ Len(trace) = 2
    /\ Len(file.data) = 2
    /\ file.data[1] = trace[1]
    /\ file.data[2] = trace[2]
    /\ export.start = JsonDump(<<>>)

HasColumn(csv, col) == \E j \in 1..Len(csv.header) : csv.header[j] = col

CellAt(csv, i, col) ==
    LET j == CHOOSE j \in 1..Len(csv.header) : csv.header[j] = col
    IN  csv.rows[i][j]

\* The value the record has for the field (or sub-score) is in its row.
ValueExported(csv, i, entry, key) ==
    IF entry[key].isdict
    THEN \A sk \in DOMAIN entry[key].sub :
            /\ HasColumn(csv, Column(key, sk))
            /\ CellAt(csv, i, Column(key, sk)) = Cell(Scalar(entry[key].sub[sk]))
    ELSE /\ HasColumn(csv, Column(key, NoSubkey))
         /\ CellAt(csv, i, Column(key, NoSubkey)) = Cell(entry[key])

\* C14: the export generated from the log has one data row per record, in log
\* order, and a column for every field and every key/subkey sub-score of any
\* record, so that every logged value is in its record's row.
C14_ExportCoversEveryField ==
    export.op = "generate_csv" /\ Usable(file) =>
        /\ export.csv.exists
        /\ Len(export.csv.rows) = Len(file.data)
        /\ \A i \in 1..Len(file.data) :
              \A key \in DOMAIN file.data[i] :
                  ValueExported(export.csv, i, file.data[i], key)

\* C15: generate_csv leaves the JSON log as it is; on an unchanged log a
\* second run leaves the export as the first made it; for a missing,
\* unparseable or empty log no export file is written.
C15_ExportIsDerived ==
    [][GenerateCsvCall =>
        /\ file' = file
        /\ ~Usable(file) => export'.csv = export.csv
        /\ export.op = "generate_csv" => export'.csv = export.csv
        /\ Usable(file) => export'.csv = GenerateCsv(export.eval_type, file, NoCsv)]_vars

C15_Witness ==
    /\ export.op = "generate_csv"
    /\ Len(file.data) = 2
    /\ export.csv.exists
    /\ Len(export.csv.rows) = 2
    /\ export.eval_type = "retrieval"
    /\ Len(export.csv.header) = 3

\* ------------------------------------------------------------------------
\* Properties of the BM25/cosine metric functions
\* ------------------------------------------------------------------------
Returned_From(fn) == metric.pc = "done" /\ metric.fn = fn /\ metric.chunks # <<>>

Ten == Rat(10, 1)
Zero == Rat(0, 1)

BM25RelevantByHalfOfMax(chunks) ==
    { i \in 1..Len(chunks) : 2 * chunks[i].bm25 >= SeqMax(RawScores(chunks)) }

CosineRelevant(chunks) == { i \in 1..Len(chunks) : chunks[i].cos >= 3000 }

TenTimesFraction(S, n) == Rat(10 * Cardinality(S), n)

BM25RelevantUnlessZeroMax(chunks) ==
    IF SeqMax(RawScores(chunks)) = 0 THEN {} ELSE BM25RelevantByHalfOfMax(chunks)

FailsCosine(chunk) == chunk.cos < NegativeThreshold
FailsBM25(chunk) == chunk.bm25 < NegativeBM25Threshold

C20_ContextPrecisionSubScores ==
    Returned_From("compute_context_precision") =>
        LET cosine == Rat(metric.blobcos, 1000)
            mean == RatDivInt(RatSum(metric.result.normalized), Len(metric.chunks))
            average == RatDivInt(RatAdd(cosine, mean), 2)
        IN  /\ metric.result.isdict
            /\ DOMAIN metric.result.sub =
                  {"cosine_score", "bm25_score", "combined_precision_score"}
            /\ metric.result.sub["cosine_score"] = Round2(cosine)
            /\ metric.result.sub["bm25_score"] = Round2(mean)
            /\ metric.result.sub["combined_precision_score"] = Round2(average)

\* cosine 3.026 and bm25 mean 5: the average 4.013 rounds to 4.01, the
\* average of the rounded sub-scores (3.03, 5.00) would round to 4.02.
C20_Witness ==
    /\ Returned_From("compute_context_precision")
    /\ metric.blobcos = 3026
    /\ Len(metric.chunks) = 2
    /\ metric.result.sub["cosine_score"] = 303
    /\ metric.result.sub["bm25_score"] = 500
    /\ metric.result.sub["combined_precision_score"] = 401

\* ------------------------------------------------------------------------
\* Properties of the score parser
\* ------------------------------------------------------------------------
ExpectedScore(s) ==
    IF IsFloatLiteral(Strip(s)) THEN FloatValue(Strip(s))
    ELSE IF HasNumber(s) THEN UnsignedValue(RegexFirstNumber(s))
    ELSE 0 - Scale

\* C8: for every judge response string _parse_llm_score returns without
\* raising: the float of the trimmed response if it parses, else the first
\* numeric substring, else -1.
C8_ParseNeverRaises ==
    parse.pc = "done" => parse.result = Returned(ExpectedScore(parse.response))


\* ------------------------------------------------------------------------
\* Properties of the judge invoker and of the LLM-judged metric functions
\* ------------------------------------------------------------------------
Failed(o) == o.t # "ok"

FailsTwiceThenSucceeds ==
    Failed(endpoint[1]) /\ Failed(endpoint[2]) /\ ~Failed(endpoint[3])

FailsThreeTimes ==
    Failed(endpoint[1]) /\ Failed(endpoint[2]) /\ Failed(endpoint[3])

\* C5: when the endpoint fails on the first 2 attempts and succeeds on the
\* third, evaluate returns the successful response content and has made
\* exactly 3 calls.
C5_RetryThenSuccess ==
    judge.pc = "returned" /\ FailsTwiceThenSucceeds =>
        /\ judge.ret = RetStr(Strip(endpoint[3].body))
        /\ judge.ncalls = 3

C5_Witness ==
    /\ judge.pc = "returned"
    /\ FailsTwiceThenSucceeds
    /\ endpoint[1].t = "exc"
    /\ endpoint[2].t = "non200"
    /\ endpoint[3].body = <<" ", "7">>

IsErrorSentinel(s) ==
    /\ Len(s) > 0
    /\ s[1] \in {"Error:", "Error"}
    /\ ~IsFloatLiteral(Strip(s))

\* C6: when all 3 attempts fail, by exceptions or non-200 responses, evaluate
\* makes no fourth call, does not raise, and returns an error sentinel string.
C6_ExhaustionReturnsSentinel ==
    judge.pc = "returned" /\ FailsThreeTimes =>
        /\ judge.ncalls = 3
        /\ judge.ret.k = "str"
        /\ IsErrorSentinel(judge.ret.s)

C6_Witness ==
    /\ judge.pc = "returned"
    /\ FailsThreeTimes
    /\ endpoint[1].t = "exc"
    /\ endpoint[2].t = "non200"
    /\ endpoint[3].t = "non200"
    /\ ~Failed(endpoint[4])

\* The failure reported after exhaustion is the last attempt's.
ResourceExhaustion(o) == o.body = <<"Resource has been exhausted">>

\* C7: after the judge call's retries are exhausted, the recorded value of the
\* metric is "FDTKE" for a resource-exhaustion failure and "Error" for any
\* other failure.
C7_SentinelTellsCause ==
    caller.pc = "recorded" /\ FailsThreeTimes =>
        caller.recorded =
            MStr(IF ResourceExhaustion(endpoint[3]) THEN "FDTKE" ELSE "Error")

IsSentinel(m) == m.k = "str" /\ m.s \in {"Error", "FDTKE"}

\* C17: the value recorded for a metric is a number in [0,10] or one of the
\* sentinels "Error" and "FDTKE", whatever number the judge answers.
C17_ScoreInRangeOrSentinel ==
    caller.pc = "recorded" =>
        \/ IsSentinel(caller.recorded)
        \/ /\ caller.recorded.k = "num"
           /\ 0 <= caller.recorded.n /\ caller.recorded.n <= 10 * Scale

\* C9: when all attempts of the judge call fail, the metric function returns a
\* sentinel string and no exception leaves it.
C9_MetricNeverRaises ==
    caller.pc \in {"returned", "recorded"} /\ FailsThreeTimes =>
        caller.result.k = "str"

RECURSIVE Pow2(_)
Pow2(n) == IF n = 0 THEN 1 ELSE 2 * Pow2(n - 1)

\* C23: evaluate makes at most 3 attempts; it sleeps once after every failed
\* attempt but the last and never after a success, so that a returned call
\* has slept one time less than it has called; the k-th sleep lasts
\* base * 2^(k-1) seconds, after an exception and after a non-200 response
\* alike.
C23_RetryBackoff ==
    /\ judge.ncalls <= 3
    /\ judge.pc = "loop" => Len(judge.sleeps) = judge.ncalls
    /\ judge.pc = "returned" => Len(judge.sleeps) = judge.ncalls - 1
    /\ \A k \in 1..Len(judge.sleeps) :
         /\ Failed(endpoint[k])
         /\ judge.sleeps[k] = InitialDelay(judge.kind) * Pow2(k - 1)

C23_Witness ==
    /\ judge.pc = "returned"
    /\ judge.kind = "LMStudioLLM"
    /\ endpoint[1].t = "non200"
    /\ endpoint[2].t = "exc"
    /\ Failed(endpoint[3])
    /\ judge.sleeps = <<1, 2>>
    /\ judge.ncalls = 3


\* ------------------------------------------------------------------------
\* Properties of the batch drivers
\* ------------------------------------------------------------------------
HasRecordFor(q) ==
    file.exists /\ file.ok /\ \E j \in 1..Len(file.data) : GetQuery(file.data[j]) = q

\* C3: an exception raised while evaluating one query never aborts the batch:
\* when the run has ended every query of the dataset has been evaluated and
\* has its record or its error entry in the log.
C3_FailureIsolated ==
    drv.status \notin {"idle", "running"} =>
        \A i \in 1..NQ :
            /\ \E k \in 1..Len(drv.hist) : drv.hist[k].query = Dataset[i].question
            /\ HasRecordFor(Dataset[i].question)

\* C11: a query whose retrieval gave an empty chunk list gets every metric's
\* default without a call of the embedding model or of the judge, and the
\* driver building the query's record from those results does not raise.
C11_EmptyChunksGiveDefaults ==
    \A k \in 1..Len(drv.hist) :
        drv.hist[k].retrieved /\ drv.hist[k].chunks = <<>> =>
            /\ drv.hist[k].nembed = 0
            /\ drv.hist[k].njudge = 0
            /\ drv.hist[k].script \notin FaithScripts => drv.hist[k].pc = "logged"

\* C10: for every query of a batch run the retriever is called exactly once
\* and the generator exactly once, and the generated_answer of the persisted
\* record is the answer the metric functions were given.
C10_RetrieveAndGenerateOnce ==
    \A k \in 1..Len(drv.hist) :
        drv.hist[k].pc = "logged" /\ drv.hist[k].script \in FaithScripts =>
            /\ drv.hist[k].nretr = 1
            /\ drv.hist[k].ngen = 1
            /\ drv.hist[k].rec["generated_answer"].answer = drv.hist[k].answer

\* C4: when several pool workers evaluate distinct queries in parallel, then
\* under every interleaving the log holds, once all workers have completed,
\* exactly one record for every evaluated query.
C4_NoLostRecord ==
    pool.status \notin {"idle", "map"} =>
        \A i \in 1..NQ :
            pool.results[i] = "ok" =>
                /\ file.exists /\ file.ok
                /\ Cardinality({ j \in 1..Len(file.data) :
                                   GetQuery(file.data[j]) = Dataset[i].question }) = 1

\* The writes of pool.writes that wrote the query q, by their position.
WritesOf(q) == { k \in 1..Len(pool.writes) : pool.writes[k] = q }

\* C24: in a parallel batch run the records of the log stand in the order in
\* which their log writes completed: of two records in the log, the one that
\* comes first had its write completed first.
C24_LogOrderIsCompletionOrder ==
    file.exists /\ file.ok =>
        \A i, j \in 1..Len(file.data) :
            i < j =>
                \E a \in WritesOf(GetQuery(file.data[i])) :
                    \E b \in WritesOf(GetQuery(file.data[j])) : a < b

\* The log holds the dataset's second entry before its first.
C24_Witness ==
    /\ file.exists /\ file.ok
    /\ Len(file.data) = 2
    /\ GetQuery(file.data[1]) = Dataset[2].question
    /\ GetQuery(file.data[2]) = Dataset[1].question
    /\ pool.status = "export"

\* C25: in the faithfulness drivers a judge score that was computed is stored
\* in the query's record as computed, whatever the other judge call of the
\* query did.
C25_JudgeScoresIndependent ==
    \A k \in 1..Len(drv.hist) :
        LET h == drv.hist[k]
        IN  h.pc = "logged" /\ h.script \in FaithScripts =>
                /\ Len(h.judged) >= 1 /\ h.judged[1].k = "num" =>
                        h.rec["faithfulness_score_llm"] = h.judged[1]
                /\ Len(h.judged) >= 2 /\ h.judged[2].k = "num" =>
                        h.rec["faithful_coverage_llm"] = h.judged[2]

\* ------------------------------------------------------------------------
\* Shape of the metric functions' results
\* ------------------------------------------------------------------------
\* The keys of the dict each function returns for a non-empty chunk list.
PrecisionKeys == {"cosine_score", "bm25_score", "combined_precision_score"}
ChunkwiseKeys ==
    {"chunkwise_cosine_precision", "chunkwise_bm25_precision", "combined_precision_score"}

\* C26: compute_context_precision and compute_context_precision_chunkwise
\* return a dict with the same three keys for an empty and for a non-empty
\* chunk list, so that result["combined_precision_score"] can be read for
\* every input.
C26_SameShapeForEmptyChunks ==
    metric.pc = "done" =>
        /\ metric.fn = "compute_context_precision" =>
              /\ metric.result.isdict
              /\ DOMAIN metric.result.sub = PrecisionKeys
        /\ metric.fn = "compute_context_precision_chunkwise" =>
              /\ metric.result.isdict
              /\ DOMAIN metric.result.sub = ChunkwiseKeys

\* ------------------------------------------------------------------------
\* Properties of the ingestion pipeline
\* ------------------------------------------------------------------------
IsPrefix(s, t) == Len(s) <= Len(t) /\ \A k \in 1..Len(s) : s[k] = t[k]

\* One loop iteration stores the entry iff its chunk_id is new, and changes
\* no stored record.
AddsIffNew ==
    store.pc = "loop" /\ store.i <= Len(store.embeddings) /\ store'.pc # "raised" =>
        LET entry == store.embeddings[store.i]
        IN  store'.coll = IF entry.chunk_id \in StoredIds(store.coll)
                          THEN store.coll
                          ELSE Append(store.coll, entry)

StoreConsistent ==
    /\ \A a, b \in 1..Len(store.coll) :
         store.coll[a].chunk_id = store.coll[b].chunk_id => a = b
    /\ IsPrefix(store.before, store.coll)
    /\ store.pc = "done" =>
         /\ store.added + store.skipped = Len(store.embeddings)
         /\ store.rerun => store.coll = store.before

\* C27: add_to_vector_db stores an entry iff its chunk_id is not yet in the
\* collection: every chunk_id is stored at most once, the stored records stay
\* as they are, a call that returns has counted every entry as added or as
\* skipped, and a call repeating the previous call's input leaves the
\* collection as it was.
C27_AddSkipsDuplicates == []StoreConsistent /\ [][AddsIffNew]_vars

\* A repeated call has skipped both entries of its input, which a first call
\* had added with the same chunk_id and different payloads.
C27_Witness ==
    /\ store.pc = "done" /\ store.rerun
    /\ Len(store.embeddings) = 2
    /\ store.embeddings[1].chunk_id = store.embeddings[2].chunk_id
    /\ store.embeddings[1].payload # store.embeddings[2].payload
    /\ store.skipped = 2 /\ store.added = 0
    /\ Len(store.coll) = 1

\* One iteration skips a topic whose file exists, leaving data/raw as it is
\* and fetching nothing, fetches any other topic, and goes on to the next
\* topic in both cases with the browser open.
TopicSkippedOrFetched ==
    scraper.pc = "loop" /\ scraper.i <= Len(scraper.topics) /\ scraper' # scraper =>
        LET topic == scraper.topics[scraper.i]
        IN  /\ scraper'.pc = "loop" /\ scraper'.i = scraper.i + 1 /\ scraper'.quits = 0
            /\ \A t \in Topics : t # topic => scraper'.raw[t] = scraper.raw[t]
            /\ IF scraper.raw[topic] # "absent"
               THEN /\ scraper'.fetched = scraper.fetched
                    /\ scraper'.raw = scraper.raw
               ELSE /\ scraper'.fetched = Append(scraper.fetched, topic)
                    /\ scraper'.raw[topic] # "saved" =>
                           scraper'.errors = Append(scraper.errors, topic)

\* The browser is quit once, and only when every topic has had its turn.
QuitOnceAtTheEnd ==
    /\ scraper.quits <= 1
    /\ scraper.pc = "loop" => scraper.quits = 0
    /\ scraper.pc # "loop" =>
         /\ scraper.quits = 1
         /\ scraper.i = Len(scraper.topics) + 1
         /\ \A k \in 1..Len(scraper.topics) :
              \/ scraper.start[scraper.topics[k]] = "earlier"
              \/ \E f \in 1..Len(scraper.fetched) : scraper.fetched[f] = scraper.topics[k]
         /\ \A t \in Topics :
              scraper.start[t] = "earlier" => scraper.raw[t] = "earlier"

\* C28: run skips a topic whose raw JSON file exists, without fetching it and
\* without touching the file; an exception while scraping a topic is logged
\* and the loop goes on with the next topic; the browser is quit exactly
\* once, after the last topic.
C28_RunSkipsIsolatesQuits == []QuitOnceAtTheEnd /\ [][TopicSkippedOrFetched]_vars

\* The first topic's scrape raised, the second was scraped and saved, the
\* third was skipped for its file, and the browser has been quit.
C28_Witness ==
    /\ scraper.pc = "done"
    /\ scraper.topics = <<1, 2, 2>>
    /\ scraper.start = [t \in Topics |-> "absent"]
    /\ scraper.errors = <<1>>
    /\ scraper.fetched = <<1, 2>>
    /\ scraper.raw[2] = "saved"

\* The sections of an element sequence as its headings cut it: one section
\* per h2, in order, holding the texts up to its first h3 and one subsection
\* per h3 up to the next h2, each holding the texts up to the next heading.
TextTags == {"p", "ul", "ol"}

Nth(S, n) == CHOOSE x \in S : Cardinality({ y \in S : y < x }) = n - 1

NextIn(S, k, end) ==
    IF { x \in S : x > k } = {} THEN end ELSE SetMin({ x \in S : x > k })

RECURSIVE TextsBetween(_, _, _)
TextsBetween(D, lo, hi) ==
    IF lo + 1 >= hi THEN <<>>
    ELSE (IF D[lo + 1].tag \in TextTags THEN <<D[lo + 1].id>> ELSE <<>>)
         \o TextsBetween(D, lo + 1, hi)

SectionAt(D, k) ==
    LET h2s == { j \in 1..Len(D) : D[j].tag = "h2" }
        end == NextIn(h2s, k, Len(D) + 1)
        h3s == { j \in (k + 1)..(end - 1) : D[j].tag = "h3" }
    IN  [intro |-> FALSE, heading |-> D[k].id,
         text |-> TextsBetween(D, k, NextIn(h3s, k, end)),
         subsections |->
             [n \in 1..Cardinality(h3s) |->
                 [subheading |-> D[Nth(h3s, n)].id,
                  text |-> TextsBetween(D, Nth(h3s, n), NextIn(h3s, Nth(h3s, n), end))]]]

SectionsByHeadings(D) ==
    LET h2s == { j \in 1..Len(D) : D[j].tag = "h2" }
    IN  [n \in 1..Cardinality(h2s) |-> SectionAt(D, Nth(h2s, n))]

\* C29: parse_sections returns the sections its headings cut out of the
\* page's h2/h3/p/ul/ol elements: one section per h2 in document order, one
\* subsection per h3 after an h2, every text in the latest subsection or else
\* in the section's text, and nothing from the elements before the first h2.
C29_SectionsFollowHeadings ==
    page.pc = "done" /\ page.content => page.sections = SectionsByHeadings(page.doc)

\* The first paragraph that is a direct child of the content div.
IntroParagraphs(D) == { k \in 1..Len(D) : D[k].tag = "p" /\ D[k].top }

\* C29 as the code has it: the first paragraph that is a direct child of the
\* content div, wherever it stands, is taken out of the page and, when its
\* text is not blank, returned first as the section "Introduction"; the
\* remaining elements give the sections their headings cut out of them.
C29_IntroThenSectionsFollowHeadings ==
    page.pc = "done" /\ page.content =>
        IF IntroParagraphs(page.doc) = {}
        THEN page.sections = SectionsByHeadings(page.doc)
        ELSE LET k == SetMin(IntroParagraphs(page.doc))
                 intro == IF page.doc[k].blank THEN <<>>
                          ELSE <<IntroductionSection(page.doc[k].id)>>
             IN  page.sections = intro \o SectionsByHeadings(Decompose(page.doc, k))

\* A page of an introduction paragraph, a heading, a subheading and a list.
C29_Witness ==
    /\ page.pc = "done"
    /\ Len(page.doc) = 4
    /\ page.doc[1].tag = "p" /\ page.doc[1].top /\ ~page.doc[1].blank
    /\ page.doc[2].tag = "h2" /\ page.doc[3].tag = "h3" /\ page.doc[4].tag = "ul"
    /\ page.sections =
         <<IntroductionSection(1),
           [intro |-> FALSE, heading |-> 2, text |-> <<>>,
            subsections |-> <<[subheading |-> 3, text |-> <<4>>]>>]>>

CollectorBounded ==
    /\ collector.fetches <= collector.max_retries
    /\ collector.saves <= 1
    /\ collector.pc = "saved" =>
         /\ collector.saves = 1
         /\ collector.loaded \subseteq collector.output_file.pages

\* C30: run always ends by saving the collected pages, once, whatever the
\* 'next page' links are; it fetches at most max_retries pages; the saved
\* pages include the pages loaded from pages.json.
C30_RunTerminatesAndSaves == []CollectorBounded /\ <>(collector.pc = "saved")

\* ------------------------------------------------------------------------
\* Properties of the similarity scores
\* ------------------------------------------------------------------------
Includes(chunks, c) == \E k \in 1..Len(chunks) : chunks[k] = c

RatLess(a, b) == a.n * b.d < b.n * a.d

\* C21: for the ground truth "A crafting table is made from 4 wood planks."
\* the ROUGE-1 component of Context Recall is strictly higher for a chunk
\* list that includes "Crafting table: requires 4 planks of any wood type."
\* than for the list of "Furnace: requires 8 cobblestone." alone.
C21_RougeRewardsOverlap ==
    /\ sim.pc = "done" /\ sim.fn = "compute_context_recall"
    /\ sim.truth = GroundTruthText
    /\ Includes(sim.chunks, CraftingChunk)
    => RatLess(RougeNScore(GroundTruthText, <<FurnaceChunk>>), sim.rouge)

\* Both chunks were retrieved, the furnace first: 5 matches, 13 and 9
\* tokens, F1 = 10/22.
C21_Witness ==
    /\ sim.pc = "done" /\ sim.fn = "compute_context_recall"
    /\ sim.chunks = <<FurnaceChunk, CraftingChunk>>
    /\ sim.rouge = Rat(100, 22)
    /\ RougeNScore(GroundTruthText, <<FurnaceChunk>>) = Rat(0, 1)

\* C22: under one encoder state the cosine score of two texts is the same
\* whichever of them is the first argument.
C22_CosineSymmetric ==
    sim.pc = "done" /\ sim.fn \in {"compute_context_precision", "compute_blobwise_similarity"} =>
        sim.ab = sim.ba

\* Two texts whose vectors differ in length and direction: 10 * 48/50.
C22_Witness ==
    /\ sim.pc = "done" /\ sim.fn = "compute_blobwise_similarity"
    /\ sim.encoder[sim.a] = <<4, 3>>
    /\ sim.encoder[sim.b] = <<6, 8>>
    /\ sim.ab = Rat(48, 5)

====
